---------------------------- MODULE Spec2Model ----------------------------
(***************************************************************************)
(* yuNews frontend: the Ticker page (filter state, URL persistence,        *)
(* selection) and the VideoTickerInfographic component (normalisation,     *)
(* D3 force-simulation lifecycle).                                         *)
(*                                                                         *)
(* Conventions                                                             *)
(*   - a JS `T | null` value is Null (the empty tuple) or Some(x) = <<x>>; *)
(*   - a JS string is a sequence of one-character strings, so that trim(), *)
(*     toUpperCase(), Number() and String() are computed, not assumed;     *)
(*   - published_at is a record [kind, ms]: kind "iso" stands for a string *)
(*     that Date.parse maps to ms, the other kinds for missing, empty and  *)
(*     unparsable strings.                                                 *)
(***************************************************************************)
EXTENDS Integers, Sequences, FiniteSets, TLC

(***************************************************************************)
(* Bounds of the model.                                                    *)
(***************************************************************************)
MaxFilterVideos == 2

(***************************************************************************)
(* Program constants.                                                      *)
(***************************************************************************)
MsPerDay == 86400000
defaultDateWindowDays == 3

(***************************************************************************)
(* Nullable values.                                                        *)
(***************************************************************************)
Null == <<>>
Some(x) == <<x>>
IsNull(x) == x = <<>>
Val(x) == x[1]
\* JS `x ?? d`
Coalesce(x, d) == IF x = <<>> THEN d ELSE x[1]

MinOf(a, b) == IF a <= b THEN a ELSE b
MaxOf(a, b) == IF a >= b THEN a ELSE b
\* the element of a singleton {e}: `The({F(x) : x \in {e}})` evaluates e once
\* and shares the value among the uses of x in F
The(S) == CHOOSE x \in S : TRUE
SetMin(S) == CHOOSE x \in S : \A y \in S : x <= y
SetMax(S) == CHOOSE x \in S : \A y \in S : x >= y

(***************************************************************************)
(* Strings.                                                                *)
(***************************************************************************)
Digits == <<"0", "1", "2", "3", "4", "5", "6", "7", "8", "9">>
IsDigit(c) == \E i \in 1..10 : Digits[i] = c
DigitVal(c) == (CHOOSE i \in 1..10 : Digits[i] = c) - 1

ToUpperChar(c) ==
  CASE c = "a" -> "A"
    [] c = "t" -> "T"
    [] c = "x" -> "X"
    [] OTHER -> c

toUpperCase(s) == [i \in 1..Len(s) |-> ToUpperChar(s[i])]

trim(s) ==
  LET keep == {i \in 1..Len(s) : s[i] # " "}
  IN IF keep = {} THEN <<>> ELSE SubSeq(s, SetMin(keep), SetMax(keep))

\* String(raw || '').trim().toUpperCase() on a nullable string
NormSymbol(raw) == toUpperCase(trim(Coalesce(raw, <<>>)))

RECURSIVE DigitsValue(_)
DigitsValue(s) ==
  IF s = <<>> THEN 0
  ELSE 10 * DigitsValue(SubSeq(s, 1, Len(s) - 1)) + DigitVal(s[Len(s)])

RECURSIVE NatToString(_)
NatToString(n) ==
  IF n < 10 THEN <<Digits[n + 1]>>
  ELSE NatToString(n \div 10) \o <<Digits[(n % 10) + 1]>>

\* String(n) for an integer n
NumberToString(n) == IF n < 0 THEN <<"-">> \o NatToString(-n) ELSE NatToString(n)

\* Math.floor(Number(raw)) for a decimal literal, Null when Number(raw) is
\* NaN.  Number() trims white space, reads "" as 0, and accepts an optional
\* sign, digits and an optional fraction.
FloorOfNumber(raw) ==
  LET t == trim(raw)
      signed == t # <<>> /\ t[1] \in {"-", "+"}
      neg == t # <<>> /\ t[1] = "-"
      body == IF signed THEN Tail(t) ELSE t
      dots == {i \in 1..Len(body) : body[i] = "."}
      intPart == IF dots = {} THEN body ELSE SubSeq(body, 1, SetMin(dots) - 1)
      fracPart == IF dots = {} THEN <<>> ELSE SubSeq(body, SetMin(dots) + 1, Len(body))
      wellFormed ==
        /\ Cardinality(dots) <= 1
        /\ Len(intPart) + Len(fracPart) > 0
        /\ \A i \in 1..Len(intPart) : IsDigit(intPart[i])
        /\ \A i \in 1..Len(fracPart) : IsDigit(fracPart[i])
      mag == DigitsValue(intPart)
      hasFrac == \E i \in 1..Len(fracPart) : fracPart[i] # "0"
  IN IF t = <<>> THEN Some(0)
     ELSE IF ~wellFormed THEN Null
     ELSE IF neg THEN Some(IF hasFrac THEN -mag - 1 ELSE -mag)
     ELSE Some(mag)

\* getIntParam on the raw value of a query parameter (Null when absent)
getIntParam(raw) == IF raw = Null THEN Null ELSE FloorOfNumber(Val(raw))

(***************************************************************************)
(* Numeric helpers of TickerPage.tsx.                                      *)
(***************************************************************************)
\* every number reaching clamp in the model is finite
clamp(n, lo, hi) == MinOf(hi, MaxOf(lo, n))

DateParse(p) == IF p.kind = "iso" THEN Some(p.ms) ELSE Null

toUtcDayIndex(p) ==
  IF p.kind \in {"missing", "empty"} THEN Null
  ELSE LET ms == DateParse(p)
       IN IF ms = Null THEN Null ELSE Some(Val(ms) \div MsPerDay)


(***************************************************************************)
(* Data model: VideoInfographicItem and its edges (types.ts).              *)
(***************************************************************************)
Iso(day, offsetMs) == [kind |-> "iso", ms |-> day * MsPerDay + offsetMs]
NoDate == [kind |-> "missing", ms |-> 0]
BadDate == [kind |-> "garbage", ms |-> 0]
Edge(t, s, k) == [ticker |-> t, sentiment |-> s, key_points |-> k]
Video(id, p, es) == [video_id |-> id, published_at |-> p, edges |-> es]

RECURSIVE SumSeq(_)
SumSeq(s) == IF s = <<>> THEN 0 ELSE Head(s) + SumSeq(Tail(s))

(***************************************************************************)
(* The window filter of TickerPage.tsx, as functions of rawItems and of    *)
(* the four filter bounds (each Null or Some(n)).                          *)
(***************************************************************************)
Today == 11

ParsedDays(rawItems) ==
  {Val(toUtcDayIndex(rawItems[i].published_at)) :
     i \in {j \in 1..Len(rawItems) : toUtcDayIndex(rawItems[j].published_at) # Null}}

dateBounds(rawItems) ==
  LET ds == ParsedDays(rawItems)
  IN IF ds = {} THEN [minDay |-> Today, maxDay |-> Today, hasReal |-> FALSE]
     ELSE [minDay |-> SetMin(ds), maxDay |-> SetMax(ds), hasReal |-> TRUE]

InDateWindow(v, minDay, maxDay) ==
  LET di == toUtcDayIndex(v.published_at)
  IN IF di = Null THEN FALSE ELSE Val(di) >= minDay /\ Val(di) <= maxDay

\* mutant: the upper end of the window is exclusive
dateFilteredItems_ExclusiveMax(rawItems, publishedMinDay, publishedMaxDay) ==
  LET lo == Coalesce(publishedMinDay, dateBounds(rawItems).minDay)
      hi == Coalesce(publishedMaxDay, dateBounds(rawItems).maxDay)
      minDay == MinOf(lo, hi)
      maxDay == MaxOf(lo, hi)
      keep(v) == InDateWindow(v, minDay, maxDay - 1)
  IN SelectSeq(rawItems, keep)

\* mutant: the bounds are used as given, without Math.min / Math.max
dateFilteredItems_NoSwap(rawItems, publishedMinDay, publishedMaxDay) ==
  LET lo == Coalesce(publishedMinDay, dateBounds(rawItems).minDay)
      hi == Coalesce(publishedMaxDay, dateBounds(rawItems).maxDay)
      keep(v) == InDateWindow(v, lo, hi)
  IN SelectSeq(rawItems, keep)

dateFilteredItems(rawItems, publishedMinDay, publishedMaxDay) ==
  LET lo == Coalesce(publishedMinDay, dateBounds(rawItems).minDay)
      hi == Coalesce(publishedMaxDay, dateBounds(rawItems).maxDay)
      minDay == MinOf(lo, hi)
      maxDay == MaxOf(lo, hi)
      keep(v) == InDateWindow(v, minDay, maxDay)
  IN SelectSeq(rawItems, keep)

\* the symbol under which TickerPage counts and filters an edge
EdgeSym(e) == NormSymbol(e.ticker)

EdgeCount(v, sym) == Cardinality({i \in 1..Len(v.edges) : EdgeSym(v.edges[i]) = sym})

ItemSymbols(items) ==
  UNION {{EdgeSym(items[i].edges[j]) : j \in 1..Len(items[i].edges)} : i \in 1..Len(items)}
    \ {<<>>}

\* Map<string, number>: one increment per edge with a non-empty symbol
mentionCounts(items) ==
  [s \in ItemSymbols(items) |-> SumSeq([i \in 1..Len(items) |-> EdgeCount(items[i], s)])]

maxMentionsObserved(counts) ==
  IF DOMAIN counts = {} THEN 0 ELSE SetMax({counts[s] : s \in DOMAIN counts})

mentionMinBound(maxObserved) == IF maxObserved > 0 THEN 1 ELSE 0

\* mutant: the default is the minimum bound
mentionDefaultMin_MinBound(maxObserved) == mentionMinBound(maxObserved)

mentionDefaultMin(maxObserved) ==
  IF maxObserved >= 2 THEN 2 ELSE mentionMinBound(maxObserved)

allowedTickers(counts, mentionsMin, mentionsMax) ==
  LET resolvedMentionsMin == Coalesce(mentionsMin, mentionDefaultMin(maxMentionsObserved(counts)))
      resolvedMentionsMax == Coalesce(mentionsMax, maxMentionsObserved(counts))
      minMentions == MinOf(resolvedMentionsMin, resolvedMentionsMax)
      maxMentions == MaxOf(resolvedMentionsMin, resolvedMentionsMax)
  IN {s \in DOMAIN counts : counts[s] >= minMentions /\ counts[s] <= maxMentions}

\* mutant: a video left without edges is not dropped
filteredItems_KeepsEmpty(dateFiltered, counts, mentionsMin, mentionsMax) ==
  LET allowed == allowedTickers(counts, mentionsMin, mentionsMax)
      keepEdge(e) == EdgeSym(e) \in allowed
  IN [i \in 1..Len(dateFiltered) |->
        [dateFiltered[i] EXCEPT !.edges = SelectSeq(@, keepEdge)]]

filteredItems(dateFiltered, counts, mentionsMin, mentionsMax) ==
  LET allowed == allowedTickers(counts, mentionsMin, mentionsMax)
      keepEdge(e) == EdgeSym(e) \in allowed
      mapped == [i \in 1..Len(dateFiltered) |->
                   [dateFiltered[i] EXCEPT !.edges = SelectSeq(@, keepEdge)]]
      keepVideo(v) == Len(v.edges) > 0
  IN SelectSeq(mapped, keepVideo)

\* the whole pipeline for one render
WindowFilter(rawItems, w) ==
  The({ The({ [dateFilteredItems |-> df,
               mentionCounts |-> mc,
               filteredItems |-> filteredItems(df, mc, w.mentionsMin, w.mentionsMax)] :
              mc \in {mentionCounts(df)} }) :
        df \in {dateFilteredItems(rawItems, w.publishedMinDay, w.publishedMaxDay)} })


(***************************************************************************)
(* State.                                                                  *)
(*   fIn, fOut: the inputs and the result of one evaluation of the window  *)
(*   filter (specification SpecFilter).                                    *)
(*   params, pending, routerDeferred: the URL query parameters the page     *)
(*   renders with, a router update that React has not rendered yet, and    *)
(*   whether the router hands its updates to React as a deferred           *)
(*   (transition) update or together with the handler's own setState calls.*)
(*   st: the useState cells of TickerPage.  query: the infographic query.  *)
(*   rendered: the values the committed render derived from st and query   *)
(*   (its useMemo results).                                                *)
(*   deps: the dependency values each effect last ran with.                *)
(*   track: history variable, the filter bounds before the last data       *)
(*   arrival or remount.                                                   *)
(*   mentionsPristine: history variable, the page was mounted without a    *)
(*   mentionsMax parameter and the mention slider has not been moved.      *)
(*   phase, props, viewportHeight, sims, nodeCircleSelectionRef, drag: one *)
(*   instance of VideoTickerInfographic (specification SpecSim): whether   *)
(*   it is mounted, its committed props and viewport height, every force   *)
(*   simulation it has created, the circle selection its ref holds and the *)
(*   simulation a drag gesture in progress belongs to.                     *)
(***************************************************************************)
VARIABLES fIn, fOut, params, pending, routerDeferred, st, query, rendered, deps, track,
          mentionsPristine,
          phase, props, viewportHeight, sims, nodeCircleSelectionRef, drag,
          onSelectRef, invoked, tk, gItems, gOut, gViews, detail, link, proxy

filterVars == <<fIn, fOut>>
pageVars == <<params, pending, routerDeferred, st, query, rendered, deps, track,
              mentionsPristine>>
simVars == <<phase, props, viewportHeight, sims, nodeCircleSelectionRef, drag,
             onSelectRef, invoked>>
tickVars == <<tk>>
graphVars == <<gItems, gOut, gViews>>
extraVars == <<detail, link, proxy>>
vars == <<fIn, fOut, params, pending, routerDeferred, st, query, rendered, deps, track,
          mentionsPristine,
          phase, props, viewportHeight, sims, nodeCircleSelectionRef, drag,
          onSelectRef, invoked, tk, gItems, gOut, gViews, detail, link, proxy>>

\* the node positions of a simulation are not part of a specification
TickParked == tk = Null

\* the detail queries, the link sanitiser and the API proxy are specifications
\* of their own
ExtraParked == detail = Null /\ link = Null /\ proxy = Null

\* the graph normaliser is not part of a specification
GraphParked == gItems = Null /\ gOut = Null /\ gViews = Null

\* the infographic component is not part of a specification
SimParked ==
  /\ phase = "parked" /\ props = Null /\ viewportHeight = 0
  /\ sims = <<>> /\ nodeCircleSelectionRef = Null /\ drag = Null
  /\ onSelectRef = Null /\ invoked = Null

(***************************************************************************)
(* SpecFilter: the window filter as a pure function of its inputs.         *)
(***************************************************************************)
SymA == <<"A">>
SymT == <<"T">>

FilterVideoUniverse ==
  { Video(Some(<<"p">>), Iso(10, 0), <<Edge(Some(SymA), "positive", 2)>>),
    Video(Some(<<"q">>), Iso(11, MsPerDay - 1),
          <<Edge(Some(<<" ", "a">>), "negative", 1), Edge(Some(SymT), "positive", 0)>>),
    Video(Some(<<"r">>), Iso(12, 1000), <<Edge(Some(SymT), "neutral", 1)>>),
    Video(Some(<<"s">>), BadDate, <<Edge(Some(SymA), "positive", 1)>>),
    Video(Some(<<"u">>), NoDate, <<Edge(Some(SymT), "negative", 1)>>),
    Video(Some(<<"w">>), Iso(11, 0),
          <<Edge(Some(SymA), "positive", 1), Edge(Some(<<"a", " ">>), "neutral", 1)>>),
    Video(Some(<<"y">>), Iso(12, 0),
          <<Edge(Some(<<" ">>), "positive", 1), Edge(Null, "positive", 1),
            Edge(Some(SymA), "negative", 3)>>),
    Video(Null, Iso(11, 0), <<Edge(Some(SymA), "positive", 1)>>) }

SeqsUpTo(S, n) == UNION {[1..k -> S] : k \in 0..n}

FilterDayChoices == {Null, Some(10), Some(11), Some(12)}
FilterMentionChoices == {Null, Some(1), Some(2), Some(3)}

\* the page is not part of this specification
PageParked ==
  /\ params = Null /\ pending = Null /\ routerDeferred = FALSE
  /\ st = Null /\ query = Null /\ rendered = Null /\ deps = Null /\ track = Null
  /\ mentionsPristine = FALSE

FilterInit ==
  /\ ExtraParked
  /\ PageParked
  /\ SimParked
  /\ TickParked
  /\ GraphParked
  /\ fIn \in [items : SeqsUpTo(FilterVideoUniverse, MaxFilterVideos),
              publishedMinDay : FilterDayChoices,
              publishedMaxDay : FilterDayChoices,
              mentionsMin : FilterMentionChoices,
              mentionsMax : FilterMentionChoices]
  /\ fOut = Null

\* the page and the infographic stay parked
FilterFrame ==
  UNCHANGED pageVars /\ UNCHANGED simVars /\ UNCHANGED tickVars /\ UNCHANGED graphVars
  /\ UNCHANGED extraVars

\* one render: dateFilteredItems, mentionCounts and filteredItems are computed
RunWindowFilter ==
  /\ fOut = Null
  /\ fOut' = Some(WindowFilter(fIn.items, fIn))
  /\ UNCHANGED fIn
  /\ FilterFrame

\* the caller passes the same date bounds in [min, max] order and renders again
NormaliseDateBounds ==
  /\ fOut # Null
  /\ fIn.publishedMinDay # Null /\ fIn.publishedMaxDay # Null
  /\ Val(fIn.publishedMinDay) > Val(fIn.publishedMaxDay)
  /\ fIn' = [fIn EXCEPT !.publishedMinDay = fIn.publishedMaxDay,
                        !.publishedMaxDay = fIn.publishedMinDay]
  /\ fOut' = Some(WindowFilter(fIn'.items, fIn'))
  /\ FilterFrame

\* the same for the mention bounds
NormaliseMentionBounds ==
  /\ fOut # Null
  /\ fIn.mentionsMin # Null /\ fIn.mentionsMax # Null
  /\ Val(fIn.mentionsMin) > Val(fIn.mentionsMax)
  /\ fIn' = [fIn EXCEPT !.mentionsMin = fIn.mentionsMax,
                        !.mentionsMax = fIn.mentionsMin]
  /\ fOut' = Some(WindowFilter(fIn'.items, fIn'))
  /\ FilterFrame

FilterNext ==
  \/ RunWindowFilter
  \/ NormaliseDateBounds
  \/ NormaliseMentionBounds

SpecFilter == FilterInit /\ [][FilterNext]_vars


(***************************************************************************)
(* Spec: the Ticker page.  One step is one committed render: a user or     *)
(* network event with the state updates its handler batches, one flush of  *)
(* the effects whose dependencies changed, or the render of a deferred     *)
(* router update.                                                          *)
(***************************************************************************)
PageDatasets ==
  << \* days 9..12; the default window [10, 12] holds A twice and T once
     << Video(Some(<<"p">>), Iso(9, 0), <<Edge(Some(SymA), "positive", 1)>>),
        Video(Some(<<"q">>), Iso(10, 500),
              <<Edge(Some(<<" ", "a">>), "negative", 2), Edge(Some(SymT), "positive", 1)>>),
        Video(Some(<<"r">>), Iso(12, MsPerDay - 1), <<Edge(Some(SymA), "neutral", 1)>>) >>,
     \* a later answer: the older videos are gone, one of day 12 is new
     << Video(Some(<<"r">>), Iso(12, MsPerDay - 1), <<Edge(Some(SymA), "neutral", 1)>>),
        Video(Some(<<"u">>), Iso(12, 7),
              <<Edge(Some(SymT), "negative", 1), Edge(Some(SymA), "positive", 1)>>) >> >>

DatasetIds == DOMAIN PageDatasets

\* infographicQuery.data || []
rawItemsOf(q) == IF q.status = "loaded" THEN PageDatasets[q.data] ELSE <<>>
isLoading(q) == q.status = "loading"

\* parseDays(params.get('days'), 7)
parseDays(raw) ==
  IF raw = Null \/ raw = Some(<<>>) THEN 7
  ELSE LET n == FloorOfNumber(Val(raw))
       IN IF n = Null THEN 7 ELSE MaxOf(1, MinOf(365, Val(n)))

symbolFromUrl(p) ==
  LET sym == NormSymbol(p.symbol)
  IN IF sym = <<>> THEN Null ELSE Some(sym)

defaultPublishedMinDay(db) == MaxOf(db.minDay, db.maxDay - (defaultDateWindowDays - 1))

\* the values one render of TickerPage derives from its state
Render(s, q) ==
  The({ The({ [dateBounds |-> dateBounds(rawItemsOf(q)),
               filteredItems |-> wf.filteredItems,
               maxMentionsObserved |-> mx,
               mentionMinBound |-> mentionMinBound(mx),
               mentionDefaultMin |-> mentionDefaultMin(mx)] :
              mx \in {maxMentionsObserved(wf.mentionCounts)} }) :
        wf \in {WindowFilter(rawItemsOf(q), s)} })

\* dependency arrays of the four effects (lines 871, 906, 960, 1010-1023)
SyncDeps(p, s) == <<symbolFromUrl(p), s.selectedTicker>>
DateDeps(r) == <<r.dateBounds.minDay, r.dateBounds.maxDay, r.dateBounds.hasReal>>
MentionDeps(r, q) ==
  <<isLoading(q), r.maxMentionsObserved, r.mentionMinBound, r.mentionDefaultMin>>
PersistDeps(p, s, r, q) ==
  <<p, isLoading(q), s.publishedMinDay, s.publishedMaxDay, s.mentionsMin, s.mentionsMax,
    r.mentionDefaultMin, r.maxMentionsObserved,
    r.dateBounds.minDay, r.dateBounds.maxDay, r.dateBounds.hasReal>>

CurrentDeps ==
  [sync |-> Some(SyncDeps(params, st)),
   date |-> Some(DateDeps(rendered)),
   mention |-> Some(MentionDeps(rendered, query)),
   persist |-> Some(PersistDeps(params, st, rendered, query))]

Dirty == deps # CurrentDeps
Quiescent == ~Dirty /\ pending = Null

\* setParams / navigate: the router state changes with this commit, or later
Navigate(next) ==
  IF routerDeferred
    THEN /\ pending' = Some(next) /\ UNCHANGED params
    ELSE /\ params' = next /\ pending' = Null

NoNavigate == UNCHANGED <<params, pending>>

\* the symbol-sync effect (lines 866-871)
AfterSyncEffect(s, p) ==
  LET sym == symbolFromUrl(p)
  IN IF sym # Null /\ sym # s.selectedTicker
       THEN [s EXCEPT !.selectedTicker = sym, !.selectedVideoId = Null]
       ELSE s

\* the date seeding / clamp effect (lines 893-906)
AfterDateEffect(s, r) ==
  LET db == r.dateBounds
  IN IF ~db.hasReal THEN s
     ELSE [s EXCEPT
             !.publishedMinDay =
                IF @ = Null THEN Some(defaultPublishedMinDay(db))
                ELSE Some(clamp(Val(@), db.minDay, db.maxDay)),
             !.publishedMaxDay =
                IF @ = Null THEN Some(db.maxDay)
                ELSE Some(clamp(Val(@), db.minDay, db.maxDay))]

\* the mention seeding / clamp effect (lines 949-960)
AfterMentionEffect(s, r, q) ==
  IF isLoading(q) THEN s
  ELSE [s EXCEPT
          !.mentionsMin =
             Some(clamp(Coalesce(@, r.mentionDefaultMin),
                        r.mentionMinBound, r.maxMentionsObserved)),
          !.mentionsMax =
             IF @ = Null THEN Some(r.maxMentionsObserved)
             ELSE Some(clamp(Val(@), r.mentionMinBound, r.maxMentionsObserved))]

\* mutant: the value is written even when it is the default
ParamFor_Always(value, default) == Some(NumberToString(value))

\* next.set(key, String(value)) unless the value is the default, else delete
ParamFor(value, default) == IF value = default THEN Null ELSE Some(NumberToString(value))

\* the URL persistence effect (lines 982-1009): the parameters it would set
PersistedParams(p, s, r, q) ==
  IF isLoading(q) \/ ~r.dateBounds.hasReal THEN p
  ELSE LET db == r.dateBounds
           defMin == defaultPublishedMinDay(db)
       IN [p EXCEPT
             !.publishedMinDay = ParamFor(Coalesce(s.publishedMinDay, defMin), defMin),
             !.publishedMaxDay = ParamFor(Coalesce(s.publishedMaxDay, db.maxDay), db.maxDay),
             !.mentionsMin = ParamFor(Coalesce(s.mentionsMin, r.mentionDefaultMin),
                                      r.mentionDefaultMin),
             !.mentionsMax = ParamFor(Coalesce(s.mentionsMax, r.maxMentionsObserved),
                                      r.maxMentionsObserved)]

\* every step of the page ends in a committed render, which derives its
\* values from the new state; the other specifications' variables stay parked
PageFrame ==
  /\ rendered' = Render(st', query')
  /\ UNCHANGED filterVars
  /\ UNCHANGED simVars
  /\ UNCHANGED tickVars
  /\ UNCHANGED graphVars
  /\ UNCHANGED extraVars

\* One flush of passive effects after a commit: every effect whose
\* dependencies changed runs against the values of that render, in source
\* order; their state updates and the persistence effect's setParams are
\* rendered together.
EffectsFlush ==
  /\ Dirty
  /\ \E cur \in {CurrentDeps} :
       \E s1 \in {IF deps.sync # cur.sync THEN AfterSyncEffect(st, params) ELSE st} :
         \E s2 \in {IF deps.date # cur.date THEN AfterDateEffect(s1, rendered) ELSE s1} :
           \E next \in {IF deps.persist # cur.persist
                           THEN PersistedParams(params, st, rendered, query) ELSE params} :
             /\ st' = IF deps.mention # cur.mention
                        THEN AfterMentionEffect(s2, rendered, query) ELSE s2
             /\ deps' = cur
             /\ IF next # params THEN Navigate(next) ELSE NoNavigate
  /\ UNCHANGED <<mentionsPristine, routerDeferred, query, track>>
  /\ PageFrame

\* React renders the deferred router update once no urgent work is left
CommitPending ==
  /\ ~Dirty
  /\ pending # Null
  /\ params' = Val(pending)
  /\ pending' = Null
  /\ UNCHANGED <<mentionsPristine, routerDeferred, st, query, deps, track>>
  /\ PageFrame

(***************************************************************************)
(* The node ids of the graph VideoTickerInfographic draws for `items`      *)
(* (part_002 lines 177-197): a video needs a truthy video_id and an edge   *)
(* with a truthy ticker; a ticker node's id is the upper-cased ticker.     *)
(***************************************************************************)
Truthy(x) == x # Null /\ x # Some(<<>>)

GraphVideoIds(items) ==
  {Val(items[i].video_id) :
     i \in {k \in 1..Len(items) :
              /\ Truthy(items[k].video_id)
              /\ \E j \in 1..Len(items[k].edges) : Truthy(items[k].edges[j].ticker)}}

GraphTickerIds(items) ==
  UNION {{toUpperCase(Val(items[i].edges[j].ticker)) :
            j \in {k \in 1..Len(items[i].edges) : Truthy(items[i].edges[k].ticker)}} :
         i \in {k \in 1..Len(items) : Truthy(items[k].video_id)}}

(***************************************************************************)
(* Handlers of the page.  Each runs on a settled page.                     *)
(***************************************************************************)
EmptyParams ==
  [days |-> Null, symbol |-> Null, publishedMinDay |-> Null, publishedMaxDay |-> Null,
   mentionsMin |-> Null, mentionsMax |-> Null]

NoDeps == [sync |-> Null, date |-> Null, mention |-> Null, persist |-> Null]

\* the useState initialisers (lines 822-828)
MountState(p) ==
  [publishedMinDay |-> getIntParam(p.publishedMinDay),
   publishedMaxDay |-> getIntParam(p.publishedMaxDay),
   mentionsMin |-> getIntParam(p.mentionsMin),
   mentionsMax |-> getIntParam(p.mentionsMax),
   selectedTicker |-> Null,
   selectedVideoId |-> Null]

Bounds4(s) == <<s.publishedMinDay, s.publishedMaxDay, s.mentionsMin, s.mentionsMax>>
NoTrack == [kind |-> "none", prev |-> Null, ds |-> 0]
\* history: nothing has happened to the page since it was first mounted
MountTrack == [kind |-> "mount", prev |-> Null, ds |-> 0]

\* history: the user selected a video (or pressed Clear, videoId = Null) while
\* the URL carried a symbol
TrackDeselect(videoId) ==
  IF symbolFromUrl(params) # Null
    THEN [kind |-> "deselect", prev |-> videoId, ds |-> 0]
    ELSE NoTrack

\* onSelectTicker of the page (lines 1228-1235)
onSelectTicker(sym) ==
  /\ st' = [st EXCEPT !.selectedTicker = Some(sym), !.selectedVideoId = Null]
  /\ LET next == [params EXCEPT !.symbol = Some(sym)]
     IN IF next # params THEN Navigate(next) ELSE NoNavigate

\* click / Enter / Space on a ticker node (part_002 lines 293-307)
ActivateTickerNode ==
  /\ Quiescent
  /\ \E id \in GraphTickerIds(rendered.filteredItems) :
       LET sym == toUpperCase(trim(id))
       IN sym # <<>> /\ onSelectTicker(sym)
  /\ track' = NoTrack
  /\ UNCHANGED <<mentionsPristine, routerDeferred, query, deps>>
  /\ PageFrame

\* click on a symbol of the stats list (part_002 line 426)
ClickStatsSymbol ==
  /\ Quiescent
  /\ \E id \in GraphTickerIds(rendered.filteredItems) : onSelectTicker(id)
  /\ track' = NoTrack
  /\ UNCHANGED <<mentionsPristine, routerDeferred, query, deps>>
  /\ PageFrame

\* mutant: the video selection keeps the selected ticker
onSelectVideo_KeepsTicker(videoId) ==
  /\ st' = [st EXCEPT !.selectedVideoId = Some(videoId)]
  /\ LET next == [params EXCEPT !.symbol = Null]
     IN IF next # params THEN Navigate(next) ELSE NoNavigate

\* onSelectVideo of the page (lines 1236-1243)
onSelectVideo(videoId) ==
  /\ st' = [st EXCEPT !.selectedVideoId = Some(videoId), !.selectedTicker = Null]
  /\ LET next == [params EXCEPT !.symbol = Null]
     IN IF next # params THEN Navigate(next) ELSE NoNavigate

\* click / Enter / Space on a video node (part_002 lines 277-291)
ActivateVideoNode ==
  /\ Quiescent
  /\ \E id \in GraphVideoIds(rendered.filteredItems) :
       id # <<>> /\ onSelectVideo(id) /\ track' = TrackDeselect(Some(id))
  /\ UNCHANGED <<mentionsPristine, routerDeferred, query, deps>>
  /\ PageFrame

\* the Clear button (lines 1253-1266), rendered while something is selected
ClickClear ==
  /\ Quiescent
  /\ st.selectedTicker # Null \/ st.selectedVideoId # Null
  /\ st' = [st EXCEPT !.selectedTicker = Null, !.selectedVideoId = Null]
  /\ LET next == [params EXCEPT !.symbol = Null]
     IN IF next # params THEN Navigate(next) ELSE NoNavigate
  /\ track' = TrackDeselect(Null)
  /\ UNCHANGED <<mentionsPristine, routerDeferred, query, deps>>
  /\ PageFrame

\* symbols the detail panel of a video can list (VideoDetailPanel.tsx 159-163)
PanelSymbols == {SymA, SymT}

\* a ticker badge of the video detail panel: its onClick (lines 1468-1471),
\* then the <Link> it is rendered as (VideoTickerBadge.tsx 8-11, 44-46)
ClickPanelTicker ==
  /\ Quiescent
  /\ st.selectedVideoId # Null
  /\ \E sym \in PanelSymbols :
       /\ st' = [st EXCEPT !.selectedTicker = Some(sym), !.selectedVideoId = Null]
       /\ Navigate([EmptyParams EXCEPT
                      !.symbol = Some(toUpperCase(trim(sym))),
                      !.days = Some(NumberToString(parseDays(params.days)))])
  /\ track' = NoTrack
  /\ UNCHANGED <<mentionsPristine, routerDeferred, query, deps>>
  /\ PageFrame

\* the "Ticker" entry of the navigation bar (AppShell.tsx line 86)
ClickNavTicker ==
  /\ Quiescent
  /\ Navigate(EmptyParams)
  /\ track' = NoTrack
  /\ UNCHANGED <<mentionsPristine, routerDeferred, st, query, deps>>
  /\ PageFrame

\* one thumb of a RangeSlider moves to v; the slider reports the sorted pair
SliderPairs(a, b, lo, hi) ==
  LET shownLo == clamp(MinOf(a, b), lo, hi)
      shownHi == clamp(MaxOf(a, b), lo, hi)
  IN {<<MinOf(v, shownHi), MaxOf(v, shownHi)>> : v \in lo..hi}
       \cup {<<MinOf(shownLo, v), MaxOf(shownLo, v)>> : v \in lo..hi}

\* the published-date slider (lines 1181-1202)
SlideDate ==
  /\ Quiescent
  /\ \E db \in {rendered.dateBounds} :
       \E pr \in SliderPairs(Coalesce(st.publishedMinDay, db.minDay),
                             Coalesce(st.publishedMaxDay, db.maxDay), db.minDay, db.maxDay) :
         st' = [st EXCEPT !.publishedMinDay = Some(pr[1]), !.publishedMaxDay = Some(pr[2])]
  /\ track' = NoTrack
  /\ NoNavigate
  /\ UNCHANGED <<mentionsPristine, routerDeferred, query, deps>>
  /\ PageFrame

\* the mention slider (lines 1143-1164)
SlideMentions ==
  /\ Quiescent
  /\ \E r \in {rendered} :
       \E pr \in SliderPairs(Coalesce(st.mentionsMin, r.mentionDefaultMin),
                             Coalesce(st.mentionsMax, r.maxMentionsObserved),
                             r.mentionMinBound,
                             MaxOf(r.mentionMinBound, r.maxMentionsObserved)) :
         st' = [st EXCEPT !.mentionsMin = Some(pr[1]), !.mentionsMax = Some(pr[2])]
  /\ track' = NoTrack
  /\ NoNavigate
  /\ mentionsPristine' = FALSE
  /\ UNCHANGED <<routerDeferred, query, deps>>
  /\ PageFrame

\* the Reset button (lines 1113-1131)
ClickReset ==
  /\ Quiescent
  /\ \E r \in {rendered},
        next \in {[params EXCEPT !.publishedMinDay = Null, !.publishedMaxDay = Null,
                                 !.mentionsMin = Null, !.mentionsMax = Null]} :
        /\ st' = [st EXCEPT
                    !.publishedMinDay = Some(defaultPublishedMinDay(r.dateBounds)),
                    !.publishedMaxDay = Some(r.dateBounds.maxDay),
                    !.mentionsMin = Some(r.mentionDefaultMin),
                    !.mentionsMax = Some(r.maxMentionsObserved)]
        /\ IF next # params THEN Navigate(next) ELSE NoNavigate
  /\ track' = NoTrack
  /\ UNCHANGED <<mentionsPristine, routerDeferred, query, deps>>
  /\ PageFrame

(***************************************************************************)
(* The infographic query (queries.ts useVideoInfographic) and the mount of *)
(* the page.  `track` is a history variable: the four filter bounds before *)
(* the last arrival of data, or before the last remount.                   *)
(***************************************************************************)
Loading == [status |-> "loading", data |-> 1]

InsideBounds(s, r) ==
  /\ \A b \in {s.publishedMinDay, s.publishedMaxDay} :
       b # Null /\ Val(b) >= r.dateBounds.minDay /\ Val(b) <= r.dateBounds.maxDay
  /\ \A b \in {s.mentionsMin, s.mentionsMax} :
       b # Null /\ Val(b) >= r.mentionMinBound /\ Val(b) <= r.maxMentionsObserved

TrackArrival(ds) ==
  IF track.kind = "remount"
    THEN IF track.ds = ds THEN track ELSE NoTrack
    ELSE [kind |-> "data", prev |-> Some(Bounds4(st)), ds |-> ds]

\* the request of a page without data succeeds
QueryResolve ==
  /\ Quiescent
  /\ query.status = "loading"
  /\ \E ds \in DatasetIds :
       /\ query' = [status |-> "loaded", data |-> ds]
       /\ track' = TrackArrival(ds)
  /\ UNCHANGED <<mentionsPristine, params, pending, routerDeferred, st, deps>>
  /\ PageFrame

\* the request fails after its retry (part_004: retry 1)
QueryFail ==
  /\ Quiescent
  /\ query.status = "loading"
  /\ query' = [status |-> "error", data |-> 1]
  /\ track' = NoTrack
  /\ UNCHANGED <<mentionsPristine, params, pending, routerDeferred, st, deps>>
  /\ PageFrame

\* refetchOnWindowFocus / refetchOnMount: a background refetch replaces the
\* data; a failed query starts over
Refetch ==
  /\ Quiescent
  /\ \/ /\ query.status = "loaded"
        /\ \E ds \in DatasetIds \ {query.data} :
             /\ query' = [status |-> "loaded", data |-> ds]
             /\ track' = TrackArrival(ds)
     \/ /\ query.status = "error"
        /\ query' = Loading
        /\ track' = NoTrack
  /\ UNCHANGED <<mentionsPristine, params, pending, routerDeferred, st, deps>>
  /\ PageFrame

\* the page unmounts (navigation away) and mounts again on the same URL:
\* fresh component state, and the query cache still warm or not
Remount ==
  /\ Quiescent
  /\ st' = MountState(params)
  /\ deps' = NoDeps
  /\ \/ query.status = "loaded" /\ query' = query
     \/ query' = Loading
  /\ \E r \in {rendered} :
       track' =
         IF query.status = "loaded" /\ InsideBounds(st, r) /\ r.dateBounds.hasReal
           THEN [kind |-> "remount", prev |-> Some(Bounds4(st)), ds |-> query.data]
           ELSE NoTrack
  /\ mentionsPristine' = (params.mentionsMax = Null)
  /\ UNCHANGED <<params, pending, routerDeferred>>
  /\ PageFrame

\* links a user can open the page with
UrlWith(min, max, mMin, mMax, sym, d) ==
  [days |-> d, symbol |-> sym, publishedMinDay |-> min, publishedMaxDay |-> max,
   mentionsMin |-> mMin, mentionsMax |-> mMax]

InitialUrls ==
  { EmptyParams,
    UrlWith(Null, Null, Null, Null, Some(<<" ", "a">>), Null),
    UrlWith(Null, Some(<<"9">>), Null, Null, Null, Null),
    UrlWith(Some(<<"1", "0">>), Some(<<"1", "2">>), Some(<<"2">>), Null, Null, Null),
    UrlWith(Some(<<"1", " ", "0">>), Null, Null, Some(<<"1", ".", "0">>), Null, Null) }

FilterParked == fIn = Null /\ fOut = Null

Init ==
  /\ ExtraParked
  /\ FilterParked
  /\ SimParked
  /\ TickParked
  /\ GraphParked
  /\ params \in InitialUrls
  /\ pending = Null
  /\ routerDeferred \in BOOLEAN
  /\ st = MountState(params)
  /\ query \in {Loading} \cup {[status |-> "loaded", data |-> ds] : ds \in DatasetIds}
  /\ rendered = Render(st, query)
  /\ deps = NoDeps
  /\ track = MountTrack
  /\ mentionsPristine = (params.mentionsMax = Null)

Next ==
  \/ EffectsFlush
  \/ CommitPending
  \/ ActivateTickerNode
  \/ ClickStatsSymbol
  \/ ActivateVideoNode
  \/ ClickClear
  \/ ClickPanelTicker
  \/ ClickNavTicker
  \/ SlideDate
  \/ SlideMentions
  \/ ClickReset
  \/ QueryResolve
  \/ QueryFail
  \/ Refetch
  \/ Remount

Spec == Init /\ [][Next]_vars

\* the page from its mount through one user or network event, the effects
\* flushed before and after it.  React flushes the passive effects of every
\* commit and renders a pending transition once no urgent work is left:
\* neither step is postponed forever.
FirstEvent == track.kind = "mount" /\ Next

SettleNext ==
  \/ EffectsFlush
  \/ CommitPending
  \/ FirstEvent

SpecSettle ==
  Init /\ [][SettleNext]_vars /\ WF_vars(EffectsFlush) /\ WF_vars(CommitPending)

(***************************************************************************)
(* SpecSim: one instance of VideoTickerInfographic (part_002).  A step is  *)
(* a committed render with the effects it triggers, a d3 timer or drag     *)
(* event, or the unmount.  The parent is the environment: it renders the   *)
(* component with the same `items` array or with a new one.                *)
(***************************************************************************)
MaxSims == 3

\* the parent supplies at most this many generations of handlers
MaxHandlers == 3

ViewportHeights == {600, 800}

\* contents the parent passes as `items`
ItemChoices == << <<>>, PageDatasets[1], PageDatasets[2] >>

SelectedChoices == {Null, Some(<<"p">>), Some(SymA), Some(<<"u">>)}

\* the ids of the video nodes and of the ticker nodes, per choice of contents
GraphNodeIds ==
  [d \in DOMAIN ItemChoices |->
     [video |-> GraphVideoIds(ItemChoices[d]), ticker |-> GraphTickerIds(ItemChoices[d])]]

\* ids of the nodes the normalisation memo builds (lines 169-213)
nodesOf(p) == GraphNodeIds[p.items.data].video \cup GraphNodeIds[p.items.data].ticker

\* the dependencies of the viz memo (line 215)
vizDeps(p, vh) == <<Cardinality(nodesOf(p)), vh>>

\* mutant: the simulation effect also depends on the selection
SimEffectDeps_WithSelection(p, vh) == <<p.items.id, vizDeps(p, vh), p.selectedNodeId>>

\* [nodes, links, viz, tickerOverallBySymbol] (line 394): nodes, links and
\* tickerOverallBySymbol are memos of `items`, compared by identity
SimEffectDeps(p, vh) == <<p.items.id, vizDeps(p, vh)>>

\* forceSimulation(nodes): a new simulation, its timer running (line 240)
\* `handlers` is the generation of onSelectTicker/onSelectVideo in scope of the
\* effect closure that builds the simulation and its node listeners
forceSimulation(p) ==
  [timer |-> TRUE, alphaTarget |-> "0", stopped |-> FALSE, items |-> p.items.id,
   handlers |-> p.handlers]

\* mutant: the cleanup leaves the timer running
stop_Forgotten(sim) == sim

\* sim.stop() of the effect's cleanup (lines 391-393)
stop(sim) == [sim EXCEPT !.timer = FALSE, !.stopped = TRUE]

cleanup(ss) == IF ss = <<>> THEN ss ELSE [ss EXCEPT ![Len(ss)] = stop(ss[Len(ss)])]

\* the highlight effect (lines 217-225) on the selection the ref holds
Highlight(ref, selectedNodeId) ==
  IF ref = Null THEN ref
  ELSE Some([Val(ref) EXCEPT
               !.stroke = [n \in DOMAIN @ |->
                             IF Truthy(selectedNodeId) /\ n = Val(selectedNodeId)
                               THEN "primary" ELSE "text"]])

Rebuilds(p, vh, first) ==
  first \/ SimEffectDeps(p, vh) # SimEffectDeps(props, viewportHeight)

\* the effect that stores the handlers in the refs (lines 72-75): it runs
\* after the first render and whenever a handler's identity changed
onSelectRefAfter(p, first) ==
  IF first \/ p.handlers # props.handlers THEN Some(p.handlers) ELSE onSelectRef

\* mutant: the node listeners call the handler of the closure that built them
onSelectRefCurrent_Captured(ref, sim) == sim.handlers

\* onSelectVideoRef.current / onSelectTickerRef.current as the node listeners
\* of simulation `sim` read it (lines 281, 288, 297, 304)
onSelectRefCurrent(ref, sim) == Val(ref)

\* a committed render with props p and viewport height vh, and its effects in
\* source order: the highlight effect, then the simulation effect, which
\* stops the previous simulation and appends fresh circles (lines 316-330)
CommitRender(p, vh, first) ==
  LET hl == IF ~first /\ p.selectedNodeId # props.selectedNodeId
              THEN Highlight(nodeCircleSelectionRef, p.selectedNodeId)
              ELSE nodeCircleSelectionRef
  IN /\ Rebuilds(p, vh, first) => Len(sims) < MaxSims
     /\ props' = p
     /\ viewportHeight' = vh
     /\ onSelectRef' = onSelectRefAfter(p, first)
     /\ IF Rebuilds(p, vh, first)
          THEN /\ sims' = Append(cleanup(sims), forceSimulation(p))
               /\ nodeCircleSelectionRef' =
                    Some([sim |-> Len(sims) + 1, stroke |-> [n \in nodesOf(p) |-> "text"]])
          ELSE /\ sims' = sims
               /\ nodeCircleSelectionRef' = hl

\* the window filter and the page stay parked
SimFrame ==
  UNCHANGED filterVars /\ UNCHANGED pageVars /\ UNCHANGED tickVars /\ UNCHANGED graphVars
  /\ UNCHANGED extraVars

SimInit ==
  /\ ExtraParked
  /\ FilterParked
  /\ PageParked
  /\ TickParked
  /\ GraphParked
  /\ phase = "initial"
  /\ props = Null
  /\ viewportHeight \in ViewportHeights
  /\ sims = <<>>
  /\ nodeCircleSelectionRef = Null
  /\ drag = Null
  /\ onSelectRef = Null
  /\ invoked = Null

Mount ==
  /\ phase = "initial"
  /\ phase' = "mounted"
  /\ \E d \in DOMAIN ItemChoices, sel \in SelectedChoices :
       CommitRender([items |-> [id |-> 1, data |-> d], selectedNodeId |-> sel,
                     handlers |-> 1],
                    viewportHeight, TRUE)
  /\ UNCHANGED <<drag, invoked>>
  /\ SimFrame

\* the parent renders again: same `items` array or a new one, any selection,
\* the same handlers or new ones
ParentRender ==
  /\ phase = "mounted"
  /\ \E sel \in SelectedChoices :
       \E it \in {props.items} \cup
                 {[id |-> props.items.id + 1, data |-> d] : d \in DOMAIN ItemChoices} :
         \E h \in {props.handlers, props.handlers + 1} \cap (1..MaxHandlers) :
           CommitRender([items |-> it, selectedNodeId |-> sel, handlers |-> h],
                        viewportHeight, FALSE)
  /\ UNCHANGED <<phase, drag, invoked>>
  /\ SimFrame

\* the window resize listener (lines 77-81)
onResize ==
  /\ phase = "mounted"
  /\ \E vh \in ViewportHeights \ {viewportHeight} : CommitRender(props, vh, FALSE)
  /\ UNCHANGED <<phase, drag, invoked>>
  /\ SimFrame

\* dragStart on a node of the current simulation (lines 376-380)
dragStart ==
  /\ phase = "mounted"
  /\ drag = Null
  /\ nodesOf(props) # {}
  /\ sims' = [sims EXCEPT ![Len(sims)].timer = TRUE, ![Len(sims)].alphaTarget = "0.3"]
  /\ drag' = Some(Len(sims))
  /\ UNCHANGED <<phase, props, viewportHeight, nodeCircleSelectionRef, onSelectRef, invoked>>
  /\ SimFrame

\* dragEnd of the gesture, on the simulation of its closure (lines 385-389)
dragEnd ==
  /\ drag # Null
  /\ sims' = [sims EXCEPT ![Val(drag)].alphaTarget = "0"]
  /\ drag' = Null
  /\ UNCHANGED <<phase, props, viewportHeight, nodeCircleSelectionRef, onSelectRef, invoked>>
  /\ SimFrame

\* a running simulation with alphaTarget 0 cools down and its timer stops
Cooled ==
  /\ \E i \in DOMAIN sims :
       /\ sims[i].timer /\ sims[i].alphaTarget = "0"
       /\ sims' = [sims EXCEPT ![i].timer = FALSE]
  /\ UNCHANGED <<phase, props, viewportHeight, nodeCircleSelectionRef, drag,
                 onSelectRef, invoked>>
  /\ SimFrame

\* the component unmounts: the cleanup of the simulation effect runs
Unmount ==
  /\ phase = "mounted"
  /\ phase' = "gone"
  /\ sims' = cleanup(sims)
  /\ UNCHANGED <<props, viewportHeight, nodeCircleSelectionRef, drag, onSelectRef, invoked>>
  /\ SimFrame

\* what a node listener passes to the handler: the id of a video node, the
\* trimmed upper-case label of a ticker node (lines 278-280, 294-296)
NodeArgument(type, id) == IF type = "video" THEN id ELSE trim(toUpperCase(id))

\* a click or an Enter/Space keydown on a node of the current simulation
\* (lines 277-307): a listener whose argument is empty returns, the others
\* call the handler the ref holds; `invoked` records the generation of the
\* handler that was called and the one the parent supplied last
ActivateNode ==
  /\ phase = "mounted"
  /\ \E type \in {"video", "ticker"} :
       \E id \in GraphNodeIds[props.items.data][type] :
         /\ NodeArgument(type, id) # <<>>
         /\ invoked' = Some([handler |-> onSelectRefCurrent(onSelectRef, sims[Len(sims)]),
                             supplied |-> props.handlers])
  /\ UNCHANGED <<phase, props, viewportHeight, sims, nodeCircleSelectionRef, drag, onSelectRef>>
  /\ SimFrame

SimNext ==
  \/ Mount
  \/ ActivateNode
  \/ ParentRender
  \/ onResize
  \/ dragStart
  \/ dragEnd
  \/ Cooled
  \/ Unmount

SpecSim == SimInit /\ [][SimNext]_vars

(***************************************************************************)
(* SpecTick: the position of one node of a running simulation (part_002    *)
(* lines 354-389).  Lengths are in hundredths of a pixel.  A step is one   *)
(* tick of d3-force with the component's tick handler, a drag event on the *)
(* node, or a resize that rebuilds the simulation around the same node     *)
(* objects.                                                                *)
(***************************************************************************)
Px == 100

\* floor(10 * sqrt(w))
Sqrt10(w) == CHOOSE n \in 0..(10 * w) : n * n <= 100 * w /\ (n + 1) * (n + 1) > 100 * w

\* computeVizLayout (lines 449-463), viewportHeight in pixels
computeVizLayout(nodeCount, vh) ==
  LET width == 920
      baseHeight == 520
      extraHeight == MaxOf(0, nodeCount - 30) * 8
      desiredHeight == baseHeight + extraHeight
      maxHeight == MaxOf(420, MinOf(820, (vh * 65) \div 100))
      height == MinOf(maxHeight, desiredHeight)
  IN [width |-> width * Px, height |-> height * Px,
      linkDistance |-> IF nodeCount > 90 THEN 70 ELSE 90,
      chargeStrength |-> IF nodeCount > 90 THEN 0 - 150 ELSE 0 - 210,
      collisionPadding |-> IF nodeCount > 90 THEN 6 ELSE 10]

\* radius (lines 465-470): min(cap, base + scale * sqrt(weight)), the product
\* rounded down to a hundredth (exact for the weights of NodeWeights)
radius(d) ==
  LET base == IF d.type = "video" THEN 800 ELSE 1200
      scale == IF d.type = "video" THEN 24 ELSE 32
      cap == IF d.type = "video" THEN 3400 ELSE 3800
  IN MinOf(cap, base + scale * Sqrt10(d.weight))

\* a coordinate is Some(n), or Null when it is not a finite number
Pt(x, y) == <<Some(x), Some(y)>>

\* mutant: the lower bound is not applied
simClamp_NoLowerBound(v, lo, hi) ==
  IF v = Null THEN Some((lo + hi) \div 2) ELSE Some(MinOf(hi, Val(v)))

\* the clamp of the simulation effect (lines 371-374)
simClamp(v, lo, hi) ==
  IF v = Null THEN Some((lo + hi) \div 2) ELSE Some(MaxOf(lo, MinOf(hi, Val(v))))

TickViewportHeights == {600, 800, 1300}
NodeCounts == {1, 40, 100}
NodeWeights == {1, 4, 100}

\* where the forces can move a free node in one tick: anywhere, the frame's
\* outside included; d3-force keeps the coordinates finite
ForcePoints ==
  { Pt(0 - 5000, 30000), Pt(1000, 0 - 100), Pt(3800, 41900), Pt(46000, 26000),
    Pt(95000, 90000), Pt(88200, 48600) }

\* where the pointer can drag the node: inside or outside the frame
PointerPoints == { Pt(0 - 2000, 10000), Pt(500, 83000), Pt(46000, 21000), Pt(93000, 0 - 300) }

NodeOf(t) == [type |-> t.type, weight |-> t.weight]

TickInit ==
  /\ ExtraParked
  /\ FilterParked
  /\ PageParked
  /\ SimParked
  /\ GraphParked
  /\ tk \in [vh : TickViewportHeights, nodeCount : NodeCounts,
              type : {"video", "ticker"}, weight : NodeWeights,
              pos : ForcePoints, forced : {Null}, fixed : {Null}, event : {"init"}]

TickFrame ==
  UNCHANGED filterVars /\ UNCHANGED pageVars /\ UNCHANGED simVars /\ UNCHANGED graphVars
  /\ UNCHANGED extraVars

\* one tick: d3-force moves the node (to its fixed position when it has one),
\* then the tick handler clamps x and y into the frame (lines 354-360)
tick ==
  /\ \E viz \in {computeVizLayout(tk.nodeCount, tk.vh)}, r \in {radius(NodeOf(tk))} :
       \E moved \in IF tk.fixed # Null THEN {Val(tk.fixed)} ELSE ForcePoints :
         tk' = [tk EXCEPT !.forced = Some(moved),
                          !.pos = <<simClamp(moved[1], r, viz.width - r),
                                    simClamp(moved[2], r, viz.height - r)>>,
                          !.event = "tick"]
  /\ TickFrame

\* dragStart on the node (lines 376-380): it is fixed where it is
nodeDragStart ==
  /\ tk.fixed = Null
  /\ tk' = [tk EXCEPT !.fixed = Some(tk.pos), !.event = "dragstart"]
  /\ TickFrame

\* dragged (lines 381-384): the fixed position follows the pointer
nodeDragged ==
  /\ tk.fixed # Null
  /\ \E pt \in PointerPoints : tk' = [tk EXCEPT !.fixed = Some(pt), !.event = "dragged"]
  /\ TickFrame

\* dragEnd (lines 385-389): the node is released
nodeDragEnd ==
  /\ tk.fixed # Null
  /\ tk' = [tk EXCEPT !.fixed = Null, !.event = "dragend"]
  /\ TickFrame

\* the viewport height changes: viz changes and the simulation effect builds
\* a new simulation on the same node objects, which keep their position
resizeRebuild ==
  /\ tk.fixed = Null
  /\ \E vh \in TickViewportHeights \ {tk.vh} :
       tk' = [tk EXCEPT !.vh = vh, !.forced = Null, !.event = "rebuild"]
  /\ TickFrame

TickNext ==
  \/ tick
  \/ nodeDragStart
  \/ nodeDragged
  \/ nodeDragEnd
  \/ resizeRebuild

SpecTick == TickInit /\ [][TickNext]_vars

(***************************************************************************)
(* SpecGraph: the memos VideoTickerInfographic derives from `items`        *)
(* (part_002 lines 83-213): links, node weights, tickerStats and           *)
(* tickerOverallBySymbol, as functions of the list of videos.  A missing   *)
(* or empty sentiment is the empty string.                                 *)
(***************************************************************************)
MaxGraphVideos == 3

\* `if (!v?.video_id) continue` and `if (!e?.ticker) continue`
GraphVideos(items) == SelectSeq(items, LAMBDA v : Truthy(v.video_id))
GraphEdges(v) == SelectSeq(v.edges, LAMBDA e : Truthy(e.ticker))

\* Math.max(1, e.key_points?.length || 0) (line 187)
EdgeWeight(e) == MaxOf(1, e.key_points)

\* the link pushed for edge e of video v (lines 190-195)
LinkOf(v, e) ==
  [source |-> Val(v.video_id),
   target |-> toUpperCase(Val(e.ticker)),
   sentiment |-> IF e.sentiment = "" THEN "neutral" ELSE e.sentiment,
   weight |-> EdgeWeight(e)]

VideoLinks(v) == [j \in 1..Len(GraphEdges(v)) |-> LinkOf(v, GraphEdges(v)[j])]

RECURSIVE Flatten(_)
Flatten(ss) == IF ss = <<>> THEN <<>> ELSE Head(ss) \o Flatten(Tail(ss))

\* `links`, in the order the loops push them
GraphLinks(items) ==
  Flatten([i \in 1..Len(GraphVideos(items)) |-> VideoLinks(GraphVideos(items)[i])])

LinkWeights(ls) == SumSeq([k \in 1..Len(ls) |-> ls[k].weight])

\* mutant: a video is entered whatever its weight
videoMap_Unguarded(items) ==
  LET vs == GraphVideos(items)
      set == 1..Len(vs)
  IN [id \in {Val(vs[i].video_id) : i \in set} |->
        LinkWeights(VideoLinks(vs[SetMax({i \in set : Val(vs[i].video_id) = id})]))]

\* videoMap: `if (vw > 0) videoMap.set(v.video_id, vw)`, a later video with
\* the same id replaces the entry (line 197)
videoMap(items) ==
  LET vs == GraphVideos(items)
      set == {i \in 1..Len(vs) : LinkWeights(VideoLinks(vs[i])) > 0}
  IN [id \in {Val(vs[i].video_id) : i \in set} |->
        LinkWeights(VideoLinks(vs[SetMax({i \in set : Val(vs[i].video_id) = id})]))]

\* tickerMap: every edge adds its weight to the entry of its symbol (line 188)
tickerMap(ls) ==
  [sym \in {ls[k].target : k \in 1..Len(ls)} |->
     LinkWeights(SelectSeq(ls, LAMBDA l : l.target = sym))]

\* the edges tickerStats visits, as <<video_id, symbol, sentiment>> (lines 95-98)
StatEdges(items) ==
  UNION {{<<Val(GraphVideos(items)[i].video_id),
            toUpperCase(Val(GraphEdges(GraphVideos(items)[i])[j].ticker)),
            GraphEdges(GraphVideos(items)[i])[j].sentiment, i, j>> :
            j \in 1..Len(GraphEdges(GraphVideos(items)[i]))} :
         i \in 1..Len(GraphVideos(items))}

\* mutant: ties go to positive
overallOf_TiePositive(positiveVideos, negativeVideos) ==
  IF positiveVideos >= negativeVideos THEN "positive" ELSE "negative"

\* `overall` of a tickerStats row (lines 130-135)
overallOf(positiveVideos, negativeVideos) ==
  IF positiveVideos = negativeVideos THEN "neutral"
  ELSE IF positiveVideos > negativeVideos THEN "positive" ELSE "negative"

\* tickerStats by symbol (lines 83-136); the sort of lines 137-145 only
\* orders the rows
tickerStats(items) ==
  LET es == StatEdges(items)
      ids(sym, kind) ==
        {e[1] : e \in {x \in es : /\ x[2] = sym
                                   /\ kind = (IF x[3] \in {"positive", "negative"}
                                                THEN x[3] ELSE "neutral")}}
  IN [sym \in {e[2] : e \in es} |->
        [symbol |-> sym,
         mentions |-> Cardinality({e \in es : e[2] = sym}),
         positiveVideos |-> Cardinality(ids(sym, "positive")),
         neutralVideos |-> Cardinality(ids(sym, "neutral")),
         negativeVideos |-> Cardinality(ids(sym, "negative")),
         overall |-> overallOf(Cardinality(ids(sym, "positive")),
                               Cardinality(ids(sym, "negative")))]]

\* tickerOverallBySymbol (lines 147-151)
tickerOverallBySymbol(stats) == [sym \in DOMAIN stats |-> stats[sym].overall]

\* the sentiment that colours ticker node `label` (lines 319-323)
tickerNodeOverall(overallBySymbol, label) ==
  IF label \in DOMAIN overallBySymbol THEN overallBySymbol[label] ELSE "neutral"

\* everything the component derives from `items` in one render
NormalizeItems(items) ==
  The({ The({ [links |-> ls, videoMap |-> videoMap(items), tickerMap |-> tickerMap(ls),
               tickerStats |-> ts, tickerOverallBySymbol |-> tickerOverallBySymbol(ts)] :
              ts \in {tickerStats(items)} }) :
        ls \in {GraphLinks(items)} })

Day10 == Iso(10, 0)

\* videos as the API can list them: valid edges, a video listed twice, a
\* ticker twice in one video, tickers differing in case and whitespace,
\* sentiments outside the enum, edges without ticker, a video without id
GraphVideoUniverse ==
  { Video(Some(<<"v", "1">>), Day10, <<Edge(Some(SymA), "positive", 2)>>),
    Video(Some(<<"v", "2">>), Day10, <<Edge(Some(SymA), "negative", 1)>>),
    Video(Some(<<"v", "1">>), Day10, <<Edge(Some(SymT), "neutral", 3)>>),
    Video(Some(<<"v", "3">>), Day10,
          <<Edge(Some(SymA), "positive", 1), Edge(Some(SymA), "negative", 3)>>),
    Video(Some(<<"v", "4">>), Day10,
          <<Edge(Some(<<" ", "a">>), "positive", 1), Edge(Some(SymT), "negative", 0)>>),
    Video(Some(<<"v", "5">>), Day10,
          <<Edge(Some(SymA), "bullish", 1), Edge(Some(SymT), "", 2)>>),
    Video(Some(<<"v", "6">>), Day10, <<Edge(Null, "positive", 1), Edge(Some(<<>>), "negative", 1)>>),
    Video(Some(<<"v", "7">>), Day10, <<>>),
    Video(Null, Day10, <<Edge(Some(SymT), "positive", 1)>>) }

GraphInit ==
  /\ ExtraParked
  /\ FilterParked
  /\ PageParked
  /\ SimParked
  /\ TickParked
  /\ gItems \in SeqsUpTo(GraphVideoUniverse, MaxGraphVideos)
  /\ gOut = Null
  /\ gViews = Null

GraphFrame ==
  UNCHANGED filterVars /\ UNCHANGED pageVars /\ UNCHANGED simVars /\ UNCHANGED tickVars
  /\ UNCHANGED extraVars

\* the render that receives `items`: the memos are computed
NormalizeData ==
  /\ gOut = Null
  /\ gOut' = Some(NormalizeItems(gItems))
  /\ UNCHANGED <<gItems, gViews>>
  /\ GraphFrame

(***************************************************************************)
(* The sentiment of a (video, ticker) pair in the three views of the same  *)
(* dataset.  The modelled sentiments are lower-case without whitespace, so *)
(* trim().toLowerCase() leaves them as they are.                           *)
(***************************************************************************)
\* String(v?.video_id || '').trim() (TickerPage.tsx line 770)
ItemKey(v) == trim(Coalesce(v.video_id, <<>>))

\* allItemsByVideoId.get(id): the first entry of a video id wins (lines 767-776)
allItemsByVideoId(items, id) == items[SetMin({i \in 1..Len(items) : ItemKey(items[i]) = id})]

EdgesOfSymbol(v, sym) == SelectSeq(v.edges, LAMBDA e : NormSymbol(e.ticker) = sym)

\* one PerTickerStat of perVideoTickerStats (lines 779-802)
perTickerStat(v, sym) ==
  LET es == EdgesOfSymbol(v, sym)
      kind(e) == IF e.sentiment \in {"positive", "negative"} THEN e.sentiment ELSE "neutral"
      tally(k) == SumSeq([j \in 1..Len(es) |-> IF kind(es[j]) = k THEN EdgeWeight(es[j]) ELSE 0])
  IN [mentions |-> SumSeq([j \in 1..Len(es) |-> EdgeWeight(es[j])]),
      positive |-> tally("positive"), negative |-> tally("negative"),
      neutral |-> tally("neutral")]

\* pickSentiment of buildInfographicEdgeChips (lines 638-643); the symbols
\* of the chips are those of the video's edges, so a stat exists
pickSentiment(stat) == overallOf(stat.positive, stat.negative)

\* the tickers of the chips of one video (lines 645-649)
ChipSymbols(v) == {NormSymbol(v.edges[j].ticker) : j \in 1..Len(v.edges)} \ {<<>>}

\* byVideoId.get(id) of summarizeVideoEdges: a later entry of the same video
\* id replaces the earlier one (part_009 line 856)
byVideoId(items, id) ==
  items[SetMax({i \in 1..Len(items) : Coalesce(items[i].video_id, <<>>) = id})]

\* tickerSentiment[sym] || 'neutral' of the list page (part_009 lines
\* 823-846, 1043): `cur[edge.sentiment] += w` leaves the three counters alone
\* when the sentiment is not one of them
tickerSentiment(v, sym) ==
  LET es == EdgesOfSymbol(v, sym)
      count(k) == SumSeq([j \in 1..Len(es) |->
                            IF es[j].sentiment = k THEN EdgeWeight(es[j]) ELSE 0])
  IN IF es = <<>> THEN "neutral" ELSE overallOf(count("positive"), count("negative"))

\* sentimentForTicker of the detail panel (VideoDetailPanel.tsx lines
\* 173-180); overall is "" when the summary has no sentiment
sentimentForTicker(edges, overall, sym) ==
  LET tickerEdges ==
        SelectSeq(edges, LAMBDA e : /\ NormSymbol(e.ticker) # <<>>
                                    /\ e.sentiment \in {"positive", "negative", "neutral"})
      hits == {j \in 1..Len(tickerEdges) : NormSymbol(tickerEdges[j].ticker) = sym}
  IN IF hits # {} THEN tickerEdges[SetMin(hits)].sentiment
     ELSE IF overall # "" THEN overall ELSE "neutral"

SummarySentiments == {"", "positive", "negative", "neutral"}

\* the three views render the dataset: per video and ticker of its chips,
\* the sentiment each view shows
SentimentViews(items, overall) ==
  [id \in {ItemKey(items[i]) : i \in 1..Len(items)} \ {<<>>} |->
     [sym \in ChipSymbols(allItemsByVideoId(items, id)) |->
        [edgeChip |-> pickSentiment(perTickerStat(allItemsByVideoId(items, id), sym)),
         listChip |-> tickerSentiment(byVideoId(items, id), sym),
         badge |-> sentimentForTicker(allItemsByVideoId(items, id).edges, overall, sym)]]]

RenderSentimentViews ==
  /\ gViews = Null
  /\ \E overall \in SummarySentiments :
       gViews' = Some([overall |-> overall, byVideo |-> SentimentViews(gItems, overall)])
  /\ UNCHANGED <<gItems, gOut>>
  /\ GraphFrame

GraphNext ==
  \/ NormalizeData
  \/ RenderSentimentViews

SpecGraph == GraphInit /\ [][GraphNext]_vars

(***************************************************************************)
(* SpecDetail: the two detail queries of the page (queries.ts 54-73,       *)
(* TickerPage.tsx 1031-1032).  The query client keeps one entry per query  *)
(* key; an observer reads the entry of the key of the current render.  A   *)
(* fetch is started for a key and settles into the entry of that key,      *)
(* whatever is selected when the response arrives.                         *)
(***************************************************************************)
DetailIds == {<<"a">>, <<"b">>}
ChunkSymbols == {SymA}
DetailDays == {7, 30}

\* queryKey: ['videoDetail', selectedId ?? null]
videoDetailKey_Shared(selectedId) == Null
videoDetailKey(selectedId) == selectedId

\* queryKey: ['entityChunks', symbol ?? null, opts?.days ?? null, opts?.limit ?? null]
\* (limit is the constant 120 of the page)
entityChunksKey(symbol, days) == <<symbol, days>>

VideoDetailKeys == {Null} \cup {Some(i) : i \in DetailIds}
EntityChunksKeys == ({Null} \cup {Some(y) : y \in ChunkSymbols}) \X DetailDays

\* a query before its first fetch
EmptyQuery == [data |-> Null, status |-> "pending", fetching |-> Null]

\* the observer of an enabled query starts a fetch when the entry has no data
\* or is stale, unless one is already in flight for the key
StartFetch(q, arg, stale) ==
  IF q.fetching = Null /\ (q.data = Null \/ stale)
    THEN [q EXCEPT !.fetching = Some(arg)]
    ELSE q

\* the render after a state change: both hooks observe the key of the render
Observed(d, staleVideo, staleChunks) ==
  [d EXCEPT
     !.videoDetail[videoDetailKey(d.selectedVideoId)] =
        IF Truthy(d.selectedVideoId)
          THEN StartFetch(@, Val(d.selectedVideoId), staleVideo)
          ELSE @,
     !.entityChunks[entityChunksKey(d.selectedTicker, d.days)] =
        \* enabled: !!symbol && enabled, the page passing !!selectedTicker
        IF Truthy(d.selectedTicker) /\ Truthy(d.selectedTicker)
          THEN StartFetch(@, <<Val(d.selectedTicker), d.days>>, staleChunks)
          ELSE @]

DetailInit ==
  /\ FilterParked
  /\ PageParked
  /\ SimParked
  /\ TickParked
  /\ GraphParked
  /\ link = Null /\ proxy = Null
  /\ detail \in [selectedVideoId : {Null}, selectedTicker : {Null},
                 days : DetailDays,
                 videoDetail : [VideoDetailKeys -> {EmptyQuery}],
                 entityChunks : [EntityChunksKeys -> {EmptyQuery}],
                 event : {"mount"}]

DetailFrame ==
  /\ UNCHANGED filterVars /\ UNCHANGED pageVars /\ UNCHANGED simVars
  /\ UNCHANGED tickVars /\ UNCHANGED graphVars
  /\ UNCHANGED <<link, proxy>>

\* onSelectVideo: setSelectedVideoId(id); setSelectedTicker(null)
SelectVideo ==
  /\ \E id \in DetailIds, sv \in BOOLEAN :
       detail' = Observed([detail EXCEPT !.selectedVideoId = Some(id),
                                         !.selectedTicker = Null,
                                         !.event = "select"], sv, FALSE)
  /\ DetailFrame

\* onSelectTicker: setSelectedTicker(sym); setSelectedVideoId(null)
SelectTicker ==
  /\ \E sym \in ChunkSymbols, sc \in BOOLEAN :
       detail' = Observed([detail EXCEPT !.selectedTicker = Some(sym),
                                         !.selectedVideoId = Null,
                                         !.event = "select"], FALSE, sc)
  /\ DetailFrame

\* Clear: both selections are dropped; the hooks are disabled
ClearSelection ==
  /\ detail' = Observed([detail EXCEPT !.selectedTicker = Null,
                                       !.selectedVideoId = Null,
                                       !.event = "clear"], FALSE, FALSE)
  /\ DetailFrame

\* the days parameter of the URL changes: the chunks hook observes a new key
ChangeDays ==
  /\ \E d \in DetailDays \ {detail.days}, sc \in BOOLEAN :
       detail' = Observed([detail EXCEPT !.days = d, !.event = "days"], FALSE, sc)
  /\ DetailFrame

\* refetchOnWindowFocus: true (entity chunks only)
WindowFocus ==
  /\ Truthy(detail.selectedTicker)
  /\ detail' = Observed([detail EXCEPT !.event = "focus"], FALSE, TRUE)
  /\ DetailFrame

\* fetchVideoDetail(id) resolves: the entry of the key the fetch was started
\* for receives the detail of the id that was asked
ResolveVideoDetail ==
  /\ \E k \in VideoDetailKeys, summary \in BOOLEAN :
       /\ detail.videoDetail[k].fetching # Null
       /\ detail' =
            [detail EXCEPT
               !.videoDetail[k] =
                  [data |-> Some([of |-> Val(@.fetching), summary |-> summary]),
                   status |-> "success", fetching |-> Null],
               !.event = IF k = videoDetailKey(detail.selectedVideoId)
                           THEN "current" ELSE "superseded"]
  /\ DetailFrame

\* fetchVideoDetail(id) rejects (after the retry): the data of the entry stay
RejectVideoDetail ==
  /\ \E k \in VideoDetailKeys :
       /\ detail.videoDetail[k].fetching # Null
       /\ detail' = [detail EXCEPT !.videoDetail[k].status =
                                      IF @ = "success" THEN @ ELSE "error",
                                   !.videoDetail[k].fetching = Null,
                                   !.event = "rejected"]
  /\ DetailFrame

\* fetchEntityChunks(symbol, opts) resolves
ResolveEntityChunks ==
  /\ \E k \in EntityChunksKeys :
       /\ detail.entityChunks[k].fetching # Null
       /\ detail' =
            [detail EXCEPT
               !.entityChunks[k] =
                  [data |-> Some([of |-> Val(@.fetching)]),
                   status |-> "success", fetching |-> Null],
               !.event = IF k = entityChunksKey(detail.selectedTicker, detail.days)
                           THEN "current" ELSE "superseded"]
  /\ DetailFrame

DetailNext ==
  \/ SelectVideo
  \/ SelectTicker
  \/ ClearSelection
  \/ ChangeDays
  \/ WindowFocus
  \/ ResolveVideoDetail
  \/ RejectVideoDetail
  \/ ResolveEntityChunks

SpecDetail == DetailInit /\ [][DetailNext]_vars

\* isLoading of a query result: no data yet and a fetch in flight
queryIsLoading(q) == q.status = "pending" /\ q.fetching # Null

\* the result useVideoDetail returns to the render
videoDetailQuery == detail.videoDetail[videoDetailKey(detail.selectedVideoId)]
entityChunksQuery == detail.entityChunks[entityChunksKey(detail.selectedTicker, detail.days)]

\* TickerPage.tsx 1450-1478: the video whose summary VideoDetailPanel shows
VideoDetailShown ==
  IF /\ Truthy(detail.selectedVideoId)
     /\ ~queryIsLoading(videoDetailQuery)
     /\ videoDetailQuery.data # Null
     /\ Val(videoDetailQuery.data).summary
    THEN Some(Val(videoDetailQuery.data).of)
    ELSE Null

\* TickerPage.tsx 1269-1283: the symbol and window whose keypoints are listed
EntityChunksShown ==
  IF /\ Truthy(detail.selectedTicker)
     /\ ~queryIsLoading(entityChunksQuery)
     /\ entityChunksQuery.data # Null
    THEN Some(Val(entityChunksQuery.data).of)
    ELSE Null

(***************************************************************************)
(* URLs.  `new URL(raw)` without a base, as far as the two sanitisers use  *)
(* it: the scheme, the credentials, the host and the serialisation of an   *)
(* http(s) URL.  Strings are sequences of characters.                      *)
(***************************************************************************)
UpperLetters == <<"A", "B", "C", "D", "E", "F", "G", "H", "I", "J", "K", "L", "M", "N", "O", "P", "Q", "R", "S", "T", "U", "V", "W", "X", "Y", "Z">>
LowerLetters == <<"a", "b", "c", "d", "e", "f", "g", "h", "i", "j", "k", "l", "m", "n", "o", "p", "q", "r", "s", "t", "u", "v", "w", "x", "y", "z">>
IsLetter(c) == \E i \in 1..26 : UpperLetters[i] = c \/ LowerLetters[i] = c
ToLowerChar(c) ==
  IF \E i \in 1..26 : UpperLetters[i] = c
    THEN LowerLetters[CHOOSE i \in 1..26 : UpperLetters[i] = c]
    ELSE c
toLowerCase(s) == [i \in 1..Len(s) |-> ToLowerChar(s[i])]

startsWith(s, prefix) ==
  Len(s) >= Len(prefix) /\ SubSeq(s, 1, Len(prefix)) = prefix

\* the index of the first character of s that belongs to chars, 0 when none
IndexOfAny(s, chars) ==
  IF \E i \in 1..Len(s) : s[i] \in chars
    THEN SetMin({i \in 1..Len(s) : s[i] \in chars})
    ELSE 0

\* the position of the ":" that ends a scheme
\* /^[a-zA-Z][a-zA-Z0-9+\-.]*:/, 0 when the input has none
SchemeEnd(input) ==
  The({ IF /\ k >= 2
           /\ IsLetter(input[1])
           /\ \A i \in 2..(k - 1) :
                IsLetter(input[i]) \/ IsDigit(input[i]) \/ input[i] \in {"+", "-", "."}
          THEN k ELSE 0 : k \in {IndexOfAny(input, {":"})} })

\* safeUrl.ts 5-8
hasScheme(input) == SchemeEnd(input) > 0

\* safeUrl.ts 10-12
isProtocolRelative(input) == startsWith(input, <<"/", "/">>)

\* safeUrl.ts 14-22
isRelativeUrl(input) ==
  \/ startsWith(input, <<"/">>)
  \/ startsWith(input, <<".", "/">>)
  \/ startsWith(input, <<".", ".", "/">>)
  \/ (~hasScheme(input) /\ ~isProtocolRelative(input))

SpecialSchemes == {<<"h", "t", "t", "p">>, <<"h", "t", "t", "p", "s">>, <<"f", "t", "p">>}

\* the authority and the rest of "scheme:" followed by `rest`, for a special
\* scheme: any run of "/" and "\" is skipped, the authority ends at the
\* next "/", "\", "?" or "#"
AfterSlashes(rest) ==
  The({ IF k = 0 THEN <<>> ELSE SubSeq(rest, k, Len(rest)) :
        k \in {IndexOfAny(rest, {rest[i] : i \in 1..Len(rest)} \ {"/", "\\"})} })

AuthorityOf(after) ==
  The({ IF k = 0 THEN after ELSE SubSeq(after, 1, k - 1) :
        k \in {IndexOfAny(after, {"/", "\\", "?", "#"})} })

\* new URL(raw): Null when the constructor throws.  A string without a
\* scheme has no base to resolve against; an http, https or ftp URL needs a
\* host; the credentials are what precedes the last "@" of the authority,
\* split at the first ":"; an empty path becomes "/".  Other schemes keep
\* what follows the ":" as their path.
URLParse(raw) ==
  IF ~hasScheme(raw) THEN Null
  ELSE
    LET k == SchemeEnd(raw)
        scheme == toLowerCase(SubSeq(raw, 1, k - 1))
        rest == SubSeq(raw, k + 1, Len(raw))
        after == AfterSlashes(rest)
        authority == AuthorityOf(after)
        ats == {i \in 1..Len(authority) : authority[i] = "@"}
        userinfo == IF ats = {} THEN <<>> ELSE SubSeq(authority, 1, SetMax(ats) - 1)
        hostname == IF ats = {} THEN authority
                    ELSE SubSeq(authority, SetMax(ats) + 1, Len(authority))
        colon == IndexOfAny(userinfo, {":"})
    IN IF scheme \notin SpecialSchemes
         THEN Some([protocol |-> scheme \o <<":">>, username |-> <<>>, password |-> <<>>,
                    host |-> <<>>, pathname |-> rest, special |-> FALSE])
       ELSE IF hostname = <<>> THEN Null
       ELSE Some([protocol |-> scheme \o <<":">>,
                  username |-> IF colon = 0 THEN userinfo ELSE SubSeq(userinfo, 1, colon - 1),
                  password |-> IF colon = 0 THEN <<>>
                               ELSE SubSeq(userinfo, colon + 1, Len(userinfo)),
                  host |-> toLowerCase(hostname),
                  pathname |-> IF Len(authority) = Len(after) THEN <<"/">>
                               ELSE SubSeq(after, Len(authority) + 1, Len(after)),
                  special |-> TRUE])

\* url.toString()
URLToString(url) ==
  IF url.special
    THEN url.protocol \o <<"/", "/">> \o
         (IF url.username # <<>> \/ url.password # <<>>
            THEN url.username \o
                 (IF url.password # <<>> THEN <<":">> \o url.password ELSE <<>>) \o <<"@">>
            ELSE <<>>) \o
         url.host \o url.pathname
    ELSE url.protocol \o url.pathname

HttpProtocols == {<<"h", "t", "t", "p", ":">>, <<"h", "t", "t", "p", "s", ":">>}

FALLBACK_HREF == <<"#">>

\* safeUrl.ts 31-56
safeExternalHref(candidate) ==
  The({ IF raw = <<>> THEN FALLBACK_HREF
        ELSE IF startsWith(raw, <<"#">>) THEN raw
        ELSE IF isRelativeUrl(raw) THEN raw
        ELSE IF isProtocolRelative(raw) THEN FALLBACK_HREF
        ELSE The({ IF url = Null THEN FALLBACK_HREF
                   ELSE IF Val(url).protocol \notin HttpProtocols THEN FALLBACK_HREF
                   ELSE IF Val(url).username # <<>> \/ Val(url).password # <<>>
                     THEN FALLBACK_HREF
                   ELSE URLToString(Val(url)) :
                   url \in {URLParse(raw)} }) :
        raw \in {trim(Coalesce(candidate, <<>>))} })

\* safeUrl.ts 63-66
safeMarkdownUrlTransform(url) ==
  The({ IF safe = FALLBACK_HREF THEN <<>> ELSE safe : safe \in {safeExternalHref(Some(url))} })

(***************************************************************************)
(* SpecLink: the link sanitiser applied to the URLs a video or a markdown  *)
(* summary may carry.  A candidate is put together from an optional        *)
(* leading blank, scheme, "//", credentials, host and path.                *)
(***************************************************************************)
LinkSchemes ==
  {<<>>, <<"h", "t", "t", "p", ":">>, <<"H", "T", "T", "P", "S", ":">>, <<"j", "a", "v", "a", "s", "c", "r", "i", "p", "t", ":">>, <<"J", "a", "v", "a", "S", "c", "r", "i", "p", "t", ":">>, <<"d", "a", "t", "a", ":">>, <<"v", "b", "s", "c", "r", "i", "p", "t", ":">>, <<"f", "t", "p", ":">>}
LinkSlashes == {<<>>, <<"/", "/">>}
LinkCredentials == {<<>>, <<"u", "@">>, <<"u", ":", "p", "@">>}
LinkHosts == {<<>>, <<"a", ".", "c">>}
LinkPaths == {<<>>, <<"/", "x">>, <<"#", "t">>}
LinkBlanks == {<<>>, <<" ">>}

LinkCandidates ==
  {Null} \cup
  {Some(b \o sch \o sl \o cr \o h \o pa) :
     b \in LinkBlanks, sch \in LinkSchemes, sl \in LinkSlashes,
     cr \in LinkCredentials, h \in LinkHosts, pa \in LinkPaths}

LinkInit ==
  /\ FilterParked
  /\ PageParked
  /\ SimParked
  /\ TickParked
  /\ GraphParked
  /\ detail = Null /\ proxy = Null
  /\ link \in [candidate : LinkCandidates, use : {"none"}, out : {Null}]

LinkFrame ==
  /\ UNCHANGED filterVars /\ UNCHANGED pageVars /\ UNCHANGED simVars
  /\ UNCHANGED tickVars /\ UNCHANGED graphVars
  /\ UNCHANGED <<detail, proxy>>

\* an href or img src of the page: safeExternalHref(video_url)
RenderHref ==
  /\ link.use # "href"
  /\ link' = [link EXCEPT !.use = "href", !.out = Some(safeExternalHref(link.candidate))]
  /\ LinkFrame

\* a link of the markdown summary: safeMarkdownUrlTransform(url)
RenderMarkdownUrl ==
  /\ link.use # "markdown"
  /\ link.candidate # Null
  /\ link' = [link EXCEPT !.use = "markdown",
                          !.out = Some(safeMarkdownUrlTransform(Val(link.candidate)))]
  /\ LinkFrame

LinkNext ==
  \/ RenderHref
  \/ RenderMarkdownUrl

SpecLink == LinkInit /\ [][LinkNext]_vars

(***************************************************************************)
(* SpecProxy: the serverless API proxy (api/[...path].ts).  One request is *)
(* handled under one environment; the upstream fetch resolves with a       *)
(* status or rejects.                                                      *)
(***************************************************************************)
\* .replace(/\/+$/, '')
RECURSIVE StripTrailingSlashes(_)
StripTrailingSlashes(s) ==
  IF s # <<>> /\ s[Len(s)] = "/" THEN StripTrailingSlashes(SubSeq(s, 1, Len(s) - 1)) ELSE s

\* api/[...path].ts 18-33
normalizeBaseUrl(value) ==
  The({ IF raw = <<>> THEN Null
        ELSE The({ IF url = Null THEN Null
                   ELSE IF Val(url).protocol \notin HttpProtocols THEN Null
                   ELSE IF Val(url).username # <<>> \/ Val(url).password # <<>> THEN Null
                   ELSE Some(StripTrailingSlashes(URLToString(Val(url)))) :
                   url \in {URLParse(raw)} }) :
        raw \in {trim(Coalesce(value, <<>>))} })

\* api/[...path].ts 35-42
pickBackendBaseUrl_ViteFirst(env) ==
  IF normalizeBaseUrl(env.VITE_BACKEND_BASE_URL) # Null
    THEN normalizeBaseUrl(env.VITE_BACKEND_BASE_URL)
    ELSE normalizeBaseUrl(env.BACKEND_BASE_URL)
pickBackendBaseUrl(env) ==
  IF normalizeBaseUrl(env.BACKEND_BASE_URL) # Null
    THEN normalizeBaseUrl(env.BACKEND_BASE_URL)
    ELSE normalizeBaseUrl(env.VITE_BACKEND_BASE_URL)

\* pathParam.join('/')
RECURSIVE JoinPath(_)
JoinPath(segments) ==
  IF segments = <<>> THEN <<>>
  ELSE IF Len(segments) = 1 THEN segments[1]
  ELSE segments[1] \o <<"/">> \o JoinPath(Tail(segments))

\* api/[...path].ts 44-53
buildTargetUrl(req, baseUrl) ==
  LET path == JoinPath(req.query.path)
      queryIndex == IndexOfAny(req.url, {"?"})
      search == IF queryIndex > 0 THEN SubSeq(req.url, queryIndex, Len(req.url)) ELSE <<>>
  IN baseUrl \o <<"/">> \o path \o search

blockedHeaders ==
  {"host", "connection", "content-length", "accept-encoding",
   "x-forwarded-proto", "x-forwarded-host", "x-forwarded-for"}

\* key.toLowerCase() of the header names of ProxyRequests
headerLower(key) ==
  CASE key = "Host" -> "host"
    [] key = "X-Forwarded-For" -> "x-forwarded-for"
    [] key = "Content-Type" -> "content-type"
    [] OTHER -> key

\* api/[...path].ts 55-74: the names of the headers passed on
sanitizeHeaders(headers) == {key \in headers : headerLower(key) \notin blockedHeaders}

\* (req.method ?? 'GET').toUpperCase() of the methods of ProxyRequests
methodUpper(method) ==
  CASE method = Null -> "GET"
    [] method = Some("get") -> "GET"
    [] method = Some("post") -> "POST"
    [] OTHER -> Val(method)

\* api/[...path].ts 76-87: no body for GET and HEAD or without one, the
\* string itself, or the JSON text of a parsed body
coerceBody(req) ==
  IF methodUpper(req.method) \in {"GET", "HEAD"} THEN Null
  ELSE IF req.body = Null THEN Null
  ELSE IF Val(req.body).type = "string" THEN Some(Val(req.body).text)
  ELSE Some("json:" \o Val(req.body).text)

ProxyBaseUrls ==
  {Null, Some(<<>>), Some(<<" ">>),
   Some(<<"h", "t", "t", "p", ":", "/", "/", "a", ".", "c">>), Some(<<" ", "H", "T", "T", "P", "S", ":", "/", "/", "a", ".", "c", "/", "/", "/", " ">>), Some(<<"h", "t", "t", "p", "s", ":", "/", "/", "b", ".", "c", "/", "v", "1", "/">>),
   Some(<<"h", "t", "t", "p", "s", ":", "/", "/", "u", ":", "p", "@", "a", ".", "c">>), Some(<<"f", "t", "p", ":", "/", "/", "a", ".", "c">>), Some(<<"a", ".", "c">>)}

ProxyRequests ==
  {[method |-> Null, headers |-> {"Host", "accept"}, body |-> Null,
    query |-> [path |-> <<<<"v", "i", "d", "e", "o", "s">>>>], url |-> <<"/", "a", "p", "i", "/", "v", "i", "d", "e", "o", "s", "?", "d", "a", "y", "s", "=", "7">>],
   [method |-> Some("get"), headers |-> {"host", "X-Forwarded-For"},
    body |-> Some([type |-> "string", text |-> "x"]),
    query |-> [path |-> <<<<"v", "i", "d", "e", "o", "s">>, <<"v", "1">>>>], url |-> <<"/", "a", "p", "i", "/", "v", "i", "d", "e", "o", "s", "/", "v", "1">>],
   [method |-> Some("POST"), headers |-> {"accept"},
    body |-> Some([type |-> "object", text |-> "{}"]),
    query |-> [path |-> <<<<"v", "i", "d", "e", "o", "s">>>>], url |-> <<"/", "a", "p", "i", "/", "v", "i", "d", "e", "o", "s">>],
   [method |-> Some("post"), headers |-> {"Content-Type", "connection"},
    body |-> Some([type |-> "string", text |-> ""]),
    query |-> [path |-> <<>>], url |-> <<"/", "a", "p", "i", "?", "x">>]}

UpstreamStatuses == {200, 404, 500}

ProxyInit ==
  /\ FilterParked
  /\ PageParked
  /\ SimParked
  /\ TickParked
  /\ GraphParked
  /\ detail = Null /\ link = Null
  /\ proxy \in [env : [BACKEND_BASE_URL : ProxyBaseUrls,
                       VITE_BACKEND_BASE_URL : ProxyBaseUrls],
                req : ProxyRequests,
                pc : {"received"},
                fetched : {<<>>},
                res : {Null}]

ProxyFrame ==
  /\ UNCHANGED filterVars /\ UNCHANGED pageVars /\ UNCHANGED simVars
  /\ UNCHANGED tickVars /\ UNCHANGED graphVars
  /\ UNCHANGED <<detail, link>>

\* handler, lines 89-113: up to the await of the upstream fetch
handler ==
  /\ proxy.pc = "received"
  /\ \E baseUrl \in {pickBackendBaseUrl(proxy.env)} :
       IF baseUrl = Null \/ baseUrl = Some(<<>>)
         THEN proxy' = [proxy EXCEPT !.pc = "returned",
                                     !.res = Some([status |-> 500, body |-> "json-error",
                                                   headers |-> {}])]
         ELSE \E body \in {coerceBody(proxy.req)}, headers \in {sanitizeHeaders(proxy.req.headers)} :
                proxy' = [proxy EXCEPT
                            !.pc = "awaiting",
                            !.fetched = Append(@,
                               [url |-> buildTargetUrl(proxy.req, Val(baseUrl)),
                                method |-> proxy.req.method,
                                headers |-> IF /\ body # Null /\ Val(body) # ""
                                               /\ "content-type" \notin headers
                                               /\ "Content-Type" \notin headers
                                              THEN headers \cup {"content-type"}
                                              ELSE headers,
                                body |-> body,
                                redirect |-> "manual"])]
  /\ ProxyFrame

\* handler, lines 115-124: the upstream response is relayed
upstreamResponds ==
  /\ proxy.pc = "awaiting"
  /\ \E status \in UpstreamStatuses, hs \in SUBSET {"content-type", "transfer-encoding"} :
       proxy' = [proxy EXCEPT
                   !.pc = "returned",
                   !.res = Some([status |-> status, body |-> "bytes",
                                 headers |-> (hs \ {"transfer-encoding"})
                                             \cup {"x-proxied-by"}])]
  /\ ProxyFrame

\* the upstream fetch rejects: the handler's promise rejects with it and the
\* handler writes no response
upstreamFails ==
  /\ proxy.pc = "awaiting"
  /\ proxy' = [proxy EXCEPT !.pc = "threw"]
  /\ ProxyFrame

ProxyNext ==
  \/ handler
  \/ upstreamResponds
  \/ upstreamFails

SpecProxy == ProxyInit /\ [][ProxyNext]_vars

(***************************************************************************)
(* Claims about the window filter (SpecFilter).                            *)
(***************************************************************************)
\* the window and the day of a video, stated without the code's helpers
FilterLo ==
  LET b == dateBounds(fIn.items)
  IN MinOf(Coalesce(fIn.publishedMinDay, b.minDay), Coalesce(fIn.publishedMaxDay, b.maxDay))
FilterHi ==
  LET b == dateBounds(fIn.items)
  IN MaxOf(Coalesce(fIn.publishedMinDay, b.minDay), Coalesce(fIn.publishedMaxDay, b.maxDay))
HasDay(v) == v.published_at.kind = "iso"
DayOf(v) == v.published_at.ms \div 86400000
KeptByDate(v) == HasDay(v) /\ FilterLo <= DayOf(v) /\ DayOf(v) <= FilterHi
Occurs(v, s) == \E j \in 1..Len(s) : s[j] = v

\* C2: the date window keeps a video iff its published_at parses to a UTC day
\* index d with min(publishedMinDay, publishedMaxDay) <= d <= max(...), both
\* ends inclusive; a video with a missing or unparsable date, or one outside
\* the window, is never kept.
C2_DateWindowExact ==
  fOut # Null =>
    LET out == Val(fOut).dateFilteredItems
        kept == {i \in 1..Len(fIn.items) : KeptByDate(fIn.items[i])}
    IN /\ \A i \in 1..Len(fIn.items) : Occurs(fIn.items[i], out) <=> i \in kept
       /\ \A j \in 1..Len(out) : KeptByDate(out[j])
       /\ Len(out) = Cardinality(kept)

C2_Witness ==
  /\ fOut # Null
  /\ fIn.publishedMinDay # Null /\ fIn.publishedMaxDay # Null
  /\ Len(Val(fOut).dateFilteredItems) = 1
  /\ \E i \in 1..Len(fIn.items) : HasDay(fIn.items[i]) /\ ~KeptByDate(fIn.items[i])
  /\ \E i \in 1..Len(fIn.items) :
       KeptByDate(fIn.items[i]) /\ DayOf(fIn.items[i]) = FilterHi
         /\ fIn.items[i].published_at.ms % 86400000 # 0

\* the resolved mention range of this evaluation
MentionLo ==
  LET mx == maxMentionsObserved(Val(fOut).mentionCounts)
  IN MinOf(Coalesce(fIn.mentionsMin, mentionDefaultMin(mx)), Coalesce(fIn.mentionsMax, mx))
MentionHi ==
  LET mx == maxMentionsObserved(Val(fOut).mentionCounts)
  IN MaxOf(Coalesce(fIn.mentionsMin, mentionDefaultMin(mx)), Coalesce(fIn.mentionsMax, mx))
TickerAllowed(e) ==
  LET mc == Val(fOut).mentionCounts
      sym == NormSymbol(e.ticker)
  IN sym \in DOMAIN mc /\ MentionLo <= mc[sym] /\ mc[sym] <= MentionHi
AllowedEdges(v) == SelectSeq(v.edges, TickerAllowed)

\* C3: a ticker is allowed iff its mention count lies in [min(mentionsMin,
\* mentionsMax), max(...)]; the output holds a date-filtered video iff one of
\* its edges points to an allowed ticker, in the input's order, and each
\* output video's edges are exactly its input edges whose ticker is allowed.
C3_MentionWindowExact ==
  fOut # Null =>
    LET df == Val(fOut).dateFilteredItems
        out == Val(fOut).filteredItems
        keptIdx == {i \in 1..Len(df) : AllowedEdges(df[i]) # <<>>}
        expected == [i \in 1..Len(df) |-> [df[i] EXCEPT !.edges = AllowedEdges(df[i])]]
    IN /\ Len(out) = Cardinality(keptIdx)
       /\ \A i \in keptIdx : Occurs(expected[i], out)
       /\ \A j \in 1..Len(out) : \E i \in keptIdx : out[j] = expected[i]

C3_Witness ==
  /\ fOut # Null
  /\ fIn.mentionsMin # Null /\ fIn.mentionsMax # Null
  /\ LET df == Val(fOut).dateFilteredItems
         out == Val(fOut).filteredItems
     IN /\ Len(df) = 2 /\ Len(out) = 1
        /\ \E i \in 1..Len(df) : out[1].video_id = df[i].video_id
                                  /\ Len(out[1].edges) < Len(df[i].edges)
                                  /\ Len(out[1].edges) > 0

\* the videos of the date-filtered set that mention a symbol, by video id
VideosMentioning(sym) ==
  LET df == Val(fOut).dateFilteredItems
  IN {df[i].video_id : i \in {k \in 1..Len(df) : EdgeCount(df[k], sym) > 0}}

\* C4: for every ticker, mentionCounts[ticker] equals the number of distinct
\* videos of the date-filtered set that mention it (not the number of edges),
\* so a mention range of [1, 1] retains exactly the tickers mentioned in
\* exactly one video of the date window.
C4_MentionsCountDistinctVideos ==
  fOut # Null =>
    LET mc == Val(fOut).mentionCounts
    IN \A sym \in DOMAIN mc : mc[sym] = Cardinality(VideosMentioning(sym))

\* C5: evaluating the filter with reversed bounds (publishedMinDay >
\* publishedMaxDay, or mentionsMin > mentionsMax) and evaluating it again with
\* the same bounds in [min, max] order give the same videos and edges.
C5_SwapInvariant == [][(fOut # Null /\ fOut' # Null) => fOut' = fOut]_vars

C5_Witness ==
  /\ fOut # Null
  /\ fIn.publishedMinDay = Some(12) /\ fIn.publishedMaxDay = Some(11)
  /\ fIn.mentionsMin = Some(2) /\ fIn.mentionsMax = Some(1)
  /\ Len(Val(fOut).filteredItems) = 2


(***************************************************************************)
(* Claims about the Ticker page (Spec).                                    *)
(***************************************************************************)
\* C1: a ticker selection clears the selected video and a video selection
\* clears the selected ticker, so after any sequence of selections, Clear
\* presses and URL-symbol syncs selectedTicker and selectedVideoId are never
\* both non-null.
C1_SelectionExclusive == ~(st.selectedTicker # Null /\ st.selectedVideoId # Null)

\* a video node was activated while the URL carried a symbol
C1_Witness ==
  /\ st.selectedVideoId # Null
  /\ st.selectedTicker = Null
  /\ pending # Null
  /\ params.symbol # Null

PrevBounds == Val(track.prev)

\* C6: when a new dataset with real dates has arrived and the effects have
\* run, every filter bound that was set before is the clamp of its previous
\* value into the new bounds: the date bounds into [minDay, maxDay], the
\* mention bounds into [mentionMinBound, maxMentionsObserved].
C6_ClampNotReset ==
  LET Clamped(prev, now, lo, hi) == prev # Null => now = Some(clamp(Val(prev), lo, hi))
  IN \A r \in {Render(st, query)}, db \in {Render(st, query).dateBounds} :
       (Quiescent /\ track.kind = "data" /\ query.status = "loaded" /\ db.hasReal) =>
         /\ Clamped(PrevBounds[1], st.publishedMinDay, db.minDay, db.maxDay)
         /\ Clamped(PrevBounds[2], st.publishedMaxDay, db.minDay, db.maxDay)
         /\ Clamped(PrevBounds[3], st.mentionsMin, r.mentionMinBound, r.maxMentionsObserved)
         /\ Clamped(PrevBounds[4], st.mentionsMax, r.mentionMinBound, r.maxMentionsObserved)

\* C7: the URL written by the persistence effect, when the page is mounted
\* again from it over the same dataset, reproduces the four filter bounds
\* the page had (all of them integers inside the data bounds).
C7_UrlRoundTrip ==
  (Quiescent /\ track.kind = "remount" /\ query = [status |-> "loaded", data |-> track.ds])
    => Bounds4(st) = PrevBounds

\* C8: on a quiescent page the query string carries symbol=T exactly when
\* ticker T is the selected ticker (no symbol parameter when a video or
\* nothing is selected).
C8_SelectionMirroredInUrl == Quiescent => symbolFromUrl(params) = st.selectedTicker


(***************************************************************************)
(* Claims about the force simulation (SpecSim).                            *)
(***************************************************************************)
Running == {i \in DOMAIN sims : sims[i].timer}

\* every simulation but the one of the mounted view has been stopped
PastSimsStopped ==
  \A i \in DOMAIN sims :
    (i < Len(sims) \/ phase = "gone") => sims[i].stopped /\ ~sims[i].timer

\* a render with a new `items` array stops the simulation and creates one
FreshSimOnNewInput ==
  (phase = "mounted" /\ phase' = "mounted" /\ props'.items.id # props.items.id) =>
    /\ Len(sims') = Len(sims) + 1
    /\ \A i \in DOMAIN sims :
         sims'[i] = IF i = Len(sims) THEN [sims[i] EXCEPT !.timer = FALSE, !.stopped = TRUE]
                    ELSE sims[i]
    /\ sims'[Len(sims')].timer /\ ~sims'[Len(sims')].stopped

\* C9: every simulation that was started is stopped when the view is torn
\* down or its node/link inputs change, a change of the inputs creates a
\* fresh simulation and leaves the old ones otherwise untouched, and at no
\* time more than one simulation of the component is running.
C9_SimulationLifecycle ==
  /\ [](Cardinality(Running) <= 1 /\ PastSimsStopped)
  /\ [][FreshSimOnNewInput]_vars

\* the view is gone after it has replaced its simulation at least once
C9_Witness ==
  /\ phase = "gone"
  /\ Len(sims) >= 2
  /\ \A i \in DOMAIN sims : sims[i].stopped

\* C10: a render with the same items and the same viewport height leaves
\* every simulation as it is (none stopped, created or restarted), and if
\* the selected node changed, the circles of the current simulation get the
\* selected stroke on the matching node and the plain stroke elsewhere.
C10_SelectionOnlyRestrokes ==
  [][(/\ phase = "mounted" /\ phase' = "mounted"
      /\ props'.items = props.items
      /\ viewportHeight' = viewportHeight
      /\ props' # props)
     => /\ sims' = sims
        /\ Val(nodeCircleSelectionRef').sim = Val(nodeCircleSelectionRef).sim
        /\ props'.selectedNodeId # props.selectedNodeId =>
             \A n \in DOMAIN Val(nodeCircleSelectionRef').stroke :
               Val(nodeCircleSelectionRef').stroke[n] =
                 IF Some(n) = props'.selectedNodeId THEN "primary" ELSE "text"]_vars

\* the highlight effect has put the selected stroke on a node of the graph
C10_Witness ==
  /\ phase = "mounted"
  /\ nodeCircleSelectionRef # Null
  /\ \E n \in DOMAIN Val(nodeCircleSelectionRef).stroke :
       /\ Val(nodeCircleSelectionRef).stroke[n] = "primary"
       /\ props.selectedNodeId = Some(n)
  /\ sims[Len(sims)].timer

TickFrameWidth == computeVizLayout(tk.nodeCount, tk.vh).width
TickFrameHeight == computeVizLayout(tk.nodeCount, tk.vh).height

NodeX == Val(tk.pos[1])
NodeY == Val(tk.pos[2])

C12_TickClampsIntoFrame ==
  tk # Null /\ tk.event = "tick" =>
    /\ tk.pos[1] # Null /\ tk.pos[2] # Null
    /\ radius(NodeOf(tk)) <= NodeX /\ NodeX <= TickFrameWidth - radius(NodeOf(tk))
    /\ radius(NodeOf(tk)) <= NodeY /\ NodeY <= TickFrameHeight - radius(NodeOf(tk))
    /\ Val(Val(tk.forced)[1]) < radius(NodeOf(tk)) => NodeX = radius(NodeOf(tk))

\* a dragged node whose pointer left the frame on the left was ticked
C12_Witness ==
  /\ tk # Null /\ tk.event = "tick"
  /\ tk.fixed # Null
  /\ Val(Val(tk.fixed)[1]) < 0
  /\ NodeX = radius(NodeOf(tk))
  /\ tk.nodeCount = 100 /\ tk.vh = 600

(***************************************************************************)
(* Claims about the graph normaliser, checked on SpecGraph.                *)
(***************************************************************************)
RECURSIVE SumOver(_)
SumOver(f) ==
  IF DOMAIN f = {} THEN 0
  ELSE LET x == CHOOSE y \in DOMAIN f : TRUE
       IN f[x] + SumOver([y \in DOMAIN f \ {x} |-> f[y]])

Graph == Val(gOut)
LinksFrom(id) == SelectSeq(Graph.links, LAMBDA l : l.source = id)

(***************************************************************************)
(* C13: every link weighs at least 1, every video node weighs the sum of   *)
(* the weights of its video's links, and the video node weights, the link  *)
(* weights and the ticker node weights have the same total.                *)
(***************************************************************************)
C13_WeightsConserved ==
  gOut # Null =>
    /\ \A k \in 1..Len(Graph.links) : Graph.links[k].weight >= 1
    /\ \A id \in DOMAIN Graph.videoMap : Graph.videoMap[id] = LinkWeights(LinksFrom(id))
    /\ SumOver(Graph.videoMap) = LinkWeights(Graph.links)
    /\ SumOver(Graph.tickerMap) = LinkWeights(Graph.links)

\* the videos of the list that carry an edge of sentiment s for ticker node sym
VideosWith(sym, s) ==
  {Val(gItems[i].video_id) :
     i \in {k \in 1..Len(gItems) :
              /\ Truthy(gItems[k].video_id)
              /\ \E j \in 1..Len(gItems[k].edges) :
                   /\ Truthy(gItems[k].edges[j].ticker)
                   /\ toUpperCase(Val(gItems[k].edges[j].ticker)) = sym
                   /\ gItems[k].edges[j].sentiment = s}}

PositiveTally(sym) == Cardinality(VideosWith(sym, "positive"))
NegativeTally(sym) == Cardinality(VideosWith(sym, "negative"))
NodeOverall(sym) == tickerNodeOverall(Graph.tickerOverallBySymbol, sym)

(***************************************************************************)
(* C14: the sentiment that colours a ticker node is neutral exactly when   *)
(* the ticker's positive tally equals its negative tally, and otherwise is *)
(* the sentiment of the strictly higher tally (the tallies being the       *)
(* numbers of videos with a positive and with a negative edge).            *)
(***************************************************************************)
C14_OverallByTallies ==
  gOut # Null =>
    \A sym \in DOMAIN Graph.tickerMap :
      /\ NodeOverall(sym) = "neutral" <=> PositiveTally(sym) = NegativeTally(sym)
      /\ PositiveTally(sym) > NegativeTally(sym) => NodeOverall(sym) = "positive"
      /\ PositiveTally(sym) < NegativeTally(sym) => NodeOverall(sym) = "negative"

\* one video positive on A and another negative on A: A is neutral
C14_Witness ==
  /\ gOut # Null
  /\ SymA \in DOMAIN Graph.tickerMap
  /\ VideosWith(SymA, "positive") = {<<"v", "1">>}
  /\ VideosWith(SymA, "negative") = {<<"v", "2">>}
  /\ NodeOverall(SymA) = "neutral"
  /\ Graph.tickerStats[SymA].mentions = 2

\* the links of ticker node sym whose edge has sentiment s
LinksOf(sym, s) == SelectSeq(Graph.links, LAMBDA l : l.target = sym /\ l.sentiment = s)

WeightedTally(sym, s) == LinkWeights(LinksOf(sym, s))

(***************************************************************************)
(* C15: the tallies behind a ticker node's overall sentiment are weighted: *)
(* every edge adds max(1, number of key points) to the tally of its        *)
(* sentiment for its ticker, and the overall sentiment follows from them.  *)
(***************************************************************************)
C15_TallyWeightedByEdgeWeight ==
  gOut # Null =>
    \A sym \in DOMAIN Graph.tickerStats :
      /\ Graph.tickerStats[sym].positiveVideos = WeightedTally(sym, "positive")
      /\ Graph.tickerStats[sym].negativeVideos = WeightedTally(sym, "negative")
      /\ Graph.tickerStats[sym].neutralVideos = WeightedTally(sym, "neutral")
      /\ NodeOverall(sym) =
           overallOf(WeightedTally(sym, "positive"), WeightedTally(sym, "negative"))

(***************************************************************************)
(* C16: for the same dataset, video and ticker, the edge chips of the      *)
(* Ticker page, the chips of the Video-Insights list and the ticker badges *)
(* of the detail panel show the same sentiment.                            *)
(***************************************************************************)
C16_ViewsAgree ==
  gViews # Null =>
    \A id \in DOMAIN Val(gViews).byVideo :
      \A sym \in DOMAIN Val(gViews).byVideo[id] :
        /\ Val(gViews).byVideo[id][sym].edgeChip = Val(gViews).byVideo[id][sym].listChip
        /\ Val(gViews).byVideo[id][sym].edgeChip = Val(gViews).byVideo[id][sym].badge

ValidSentiments == {"positive", "negative", "neutral"}

\* the list without the edges whose sentiment is outside the enum
WithoutInvalidSentiment(items) ==
  [i \in 1..Len(items) |->
     [items[i] EXCEPT !.edges = SelectSeq(@, LAMBDA e : e.sentiment \in ValidSentiments)]]

(***************************************************************************)
(* C17: an edge whose sentiment is not positive, negative or neutral       *)
(* leaves no trace: no link carries such a sentiment, and links, node      *)
(* weights and tallies are those of the list without these edges.          *)
(***************************************************************************)
C17_InvalidSentimentDropped ==
  gOut # Null =>
    /\ \A k \in 1..Len(Graph.links) : Graph.links[k].sentiment \in ValidSentiments
    /\ Graph = NormalizeItems(WithoutInvalidSentiment(gItems))

(***************************************************************************)
(* C18: no link has an empty ticker, every link's ticker is upper-case and *)
(* trimmed, and the ticker nodes are the symbols under which mentionCounts *)
(* counts the edges of the same videos, so that an edge is counted under   *)
(* the id of the node it links to.                                         *)
(***************************************************************************)
C18_TickerSymbolsNormalised ==
  gOut # Null =>
    /\ \A k \in 1..Len(Graph.links) :
         /\ Graph.links[k].target # <<>>
         /\ Graph.links[k].target = NormSymbol(Some(Graph.links[k].target))
    /\ DOMAIN Graph.tickerMap = DOMAIN mentionCounts(GraphVideos(gItems))

(***************************************************************************)
(* C19: the links hold one link per (video, ticker) pair: no two links     *)
(* have the same source video and the same target ticker.                  *)
(***************************************************************************)
C19_OneLinkPerPair ==
  gOut # Null =>
    \A j, k \in 1..Len(Graph.links) :
      j # k => ~(/\ Graph.links[j].source = Graph.links[k].source
                 /\ Graph.links[j].target = Graph.links[k].target)

(***************************************************************************)
(* C20: every node of the graph weighs at least 1 and has an incident      *)
(* link, and the source and the target of every link are nodes.            *)
(***************************************************************************)
C20_NodesAndLinksConsistent ==
  gOut # Null =>
    /\ \A id \in DOMAIN Graph.videoMap :
         /\ Graph.videoMap[id] >= 1
         /\ \E k \in 1..Len(Graph.links) : Graph.links[k].source = id
    /\ \A sym \in DOMAIN Graph.tickerMap :
         /\ Graph.tickerMap[sym] >= 1
         /\ \E k \in 1..Len(Graph.links) : Graph.links[k].target = sym
    /\ \A k \in 1..Len(Graph.links) :
         /\ Graph.links[k].source \in DOMAIN Graph.videoMap
         /\ Graph.links[k].target \in DOMAIN Graph.tickerMap

\* a list with a video that has no edge with a ticker, next to one that has:
\* the first is not a node
C20_Witness ==
  /\ gOut # Null
  /\ Graph.links # <<>>
  /\ \E i \in 1..Len(gItems) :
       /\ Truthy(gItems[i].video_id)
       /\ GraphEdges(gItems[i]) = <<>>
       /\ Val(gItems[i].video_id) \notin DOMAIN Graph.videoMap
  /\ \E i \in 1..Len(gItems) : gItems[i].edges = <<>>

\* the list without the videos that have no video_id
WithoutMissingId(items) == SelectSeq(items, LAMBDA v : Truthy(v.video_id))

(***************************************************************************)
(* C21: a video without video_id leaves no trace in the view: the mention  *)
(* counts, the filtered videos and the graph built from them are those of  *)
(* the list without it; no video with an unparsable published_at is kept   *)
(* and no link has an edge without ticker behind it.                       *)
(***************************************************************************)
C21_MalformedInputSkipped ==
  fOut # Null =>
    \E clean \in {WindowFilter(WithoutMissingId(fIn.items), fIn)} :
      /\ Val(fOut).mentionCounts = clean.mentionCounts
      /\ NormalizeItems(Val(fOut).filteredItems) = NormalizeItems(clean.filteredItems)
      /\ \A i \in 1..Len(Val(fOut).filteredItems) :
           toUtcDayIndex(Val(fOut).filteredItems[i].published_at) # Null
      /\ \A k \in 1..Len(GraphLinks(Val(fOut).filteredItems)) :
           GraphLinks(Val(fOut).filteredItems)[k].target # <<>>

\* the mention counts of the date-filtered set of the current render
RenderedCounts ==
  mentionCounts(dateFilteredItems(rawItemsOf(query), st.publishedMinDay, st.publishedMaxDay))

SeededLowerBound ==
  The({ IF \E sym \in DOMAIN mc : mc[sym] >= 2 THEN 2
        ELSE IF DOMAIN mc # {} THEN 1 ELSE 0 : mc \in {RenderedCounts} })

\* this step is a flush of effects in which the mention effect seeds mentionsMin
SeedsMentionsMin ==
  /\ deps # CurrentDeps /\ deps' = CurrentDeps
  /\ ~isLoading(query)
  /\ st.mentionsMin = Null /\ st'.mentionsMin # Null

(***************************************************************************)
(* C22: when the mention effect seeds a lower bound that was not supplied, *)
(* the seed is 2 if some ticker of the date-filtered set has at least 2    *)
(* mentions, else 1 if there is any mention, else 0.                       *)
(***************************************************************************)
C22_MentionsMinSeed ==
  [][SeedsMentionsMin => Val(st'.mentionsMin) = SeededLowerBound]_vars

\* the last flush saw no lower bound and data, and seeded 2
C22_Witness ==
  /\ deps # Null /\ deps.persist # Null /\ deps.mention # Null
  /\ Val(deps.persist)[5] = Null
  /\ Val(deps.mention)[1] = FALSE
  /\ st.mentionsMin = Some(2)
  /\ params.mentionsMin = Null

(***************************************************************************)
(* Claims about the detail queries (SpecDetail).                           *)
(***************************************************************************)

\* C23: detail fetches are last-selection-wins: the video detail shown is
\* that of the currently selected video id or none, and the keypoints listed
\* are those of the currently selected ticker and window or none, whatever
\* order the responses of superseded and current fetches arrive in.
C23_LastSelectionWins ==
  /\ VideoDetailShown # Null => VideoDetailShown = detail.selectedVideoId
  /\ EntityChunksShown # Null =>
       Val(EntityChunksShown) = <<Val(detail.selectedTicker), detail.days>>

\* the response for a superseded id arrives after the response for the
\* selected one, whose detail is on screen
C23_Witness ==
  /\ detail # Null
  /\ detail.event = "superseded"
  /\ VideoDetailShown # Null
  /\ \E k \in VideoDetailKeys :
       /\ k # detail.selectedVideoId
       /\ detail.videoDetail[k].data # Null
       /\ Val(detail.videoDetail[k].data).summary

(***************************************************************************)
(* Claims about the layout and the strokes of the infographic.             *)
(***************************************************************************)

\* the fraction of the viewport the height is said to be clamped to
ViewportFraction(vh) == (vh * 65) \div 100

\* C24: for every node count and viewport height computeVizLayout returns
\* the width 920 and the height 520 + 8 per node above 30, clamped to
\* floor(0.65 * viewportHeight); the height is non-decreasing in the node
\* count and never exceeds that fraction of the viewport height.
C24_HeightClampedToViewport ==
  tk # Null =>
    \E viz \in {computeVizLayout(tk.nodeCount, tk.vh)} :
      /\ viz.width = 920 * Px
      /\ viz.height =
           MinOf(520 + 8 * MaxOf(0, tk.nodeCount - 30), ViewportFraction(tk.vh)) * Px
      /\ \A n \in NodeCounts :
           n <= tk.nodeCount => computeVizLayout(n, tk.vh).height <= viz.height
      /\ viz.height <= ViewportFraction(tk.vh) * Px

(***************************************************************************)
(* Claims about the link sanitiser (SpecLink).                             *)
(***************************************************************************)
LinkRaw == trim(Coalesce(link.candidate, <<>>))
LinkScheme == toLowerCase(SubSeq(LinkRaw, 1, SchemeEnd(LinkRaw)))
DangerousProtocols ==
  {<<"j", "a", "v", "a", "s", "c", "r", "i", "p", "t", ":">>,
   <<"d", "a", "t", "a", ":">>,
   <<"v", "b", "s", "c", "r", "i", "p", "t", ":">>}

\* C25: safeExternalHref returns a relative URL unchanged, returns an
\* absolute URL only when its scheme is http or https and it carries no
\* credentials, and returns the fallback "#" for every javascript:, data:
\* and vbscript: URL and for every protocol-relative URL (input starting
\* with "//").
C25_OnlySafeLinks ==
  (link # Null /\ link.use = "href") =>
    \E out \in {Val(link.out)} :
      /\ (LinkRaw # <<>> /\ ~hasScheme(LinkRaw) /\ ~startsWith(LinkRaw, <<"/", "/">>))
           => out = LinkRaw
      /\ hasScheme(out) =>
           /\ LinkScheme \in HttpProtocols
           /\ IndexOfAny(out, {"@"}) = 0
      /\ (hasScheme(LinkRaw) /\ LinkScheme \in DangerousProtocols) => out = FALLBACK_HREF
      /\ startsWith(LinkRaw, <<"/", "/">>) => out = FALLBACK_HREF

(***************************************************************************)
(* Claims about the API proxy (SpecProxy).                                 *)
(***************************************************************************)

\* the value is an http or https URL without credentials
ValidBaseUrl(value) ==
  \E url \in {URLParse(trim(Coalesce(value, <<>>)))} :
    /\ url # Null
    /\ Val(url).protocol \in HttpProtocols
    /\ Val(url).username = <<>> /\ Val(url).password = <<>>

\* the backend the request has to go to: BACKEND_BASE_URL when it is valid,
\* else VITE_BACKEND_BASE_URL
PreferredBase ==
  IF ValidBaseUrl(proxy.env.BACKEND_BASE_URL)
    THEN Val(URLParse(trim(Val(proxy.env.BACKEND_BASE_URL))))
    ELSE Val(URLParse(trim(Val(proxy.env.VITE_BACKEND_BASE_URL))))

\* C30: once the handler has run, it has answered 500 with the JSON error
\* body without any upstream request if and only if neither BACKEND_BASE_URL
\* nor VITE_BACKEND_BASE_URL is an http/https URL without credentials;
\* otherwise it has issued exactly one upstream request, to the first of the
\* two that is valid.
C30_ProxyNeedsValidBackend ==
  (proxy # Null /\ proxy.pc # "received") =>
    /\ (/\ proxy.res # Null
        /\ Val(proxy.res).status = 500
        /\ Val(proxy.res).body = "json-error"
        /\ proxy.fetched = <<>>)
         <=> (/\ ~ValidBaseUrl(proxy.env.BACKEND_BASE_URL)
              /\ ~ValidBaseUrl(proxy.env.VITE_BACKEND_BASE_URL))
    /\ (ValidBaseUrl(proxy.env.BACKEND_BASE_URL) \/ ValidBaseUrl(proxy.env.VITE_BACKEND_BASE_URL))
         => /\ Len(proxy.fetched) = 1
            /\ \E target \in {URLParse(proxy.fetched[1].url)} :
                 /\ target # Null
                 /\ Val(target).protocol = PreferredBase.protocol
                 /\ Val(target).host = PreferredBase.host
                 /\ startsWith(Val(target).pathname,
                               StripTrailingSlashes(PreferredBase.pathname) \o <<"/">>)

\* both variables hold a valid backend, of different hosts, and the upstream
\* answer has been relayed
C30_Witness ==
  /\ proxy # Null
  /\ proxy.pc = "returned"
  /\ ValidBaseUrl(proxy.env.BACKEND_BASE_URL)
  /\ ValidBaseUrl(proxy.env.VITE_BACKEND_BASE_URL)
  /\ normalizeBaseUrl(proxy.env.BACKEND_BASE_URL) # normalizeBaseUrl(proxy.env.VITE_BACKEND_BASE_URL)
  /\ Len(proxy.fetched) = 1

(***************************************************************************)
(* Further claims about the Ticker page (Spec).                            *)
(***************************************************************************)

\* C26: when the URL carries symbol=X and the user selects a video V (or
\* presses Clear), the page settles with selectedVideoId = V (or no
\* selection), selectedTicker = null and no symbol parameter, whether the
\* URL update becomes visible with the state update or after it: the
\* symbol-sync effect never re-selects X.
C26_DeselectSettles ==
  (Quiescent /\ track.kind = "deselect") =>
    /\ st.selectedVideoId = track.prev
    /\ st.selectedTicker = Null
    /\ symbolFromUrl(params) = Null

(***************************************************************************)
(* Further claims about the infographic (SpecSim).                         *)
(***************************************************************************)

\* C27: whenever the rendered graph contains a node whose id equals
\* selectedNodeId, the circle of that node carries the selection stroke and
\* every other circle the default stroke, after any sequence of selection
\* changes and rebuilds, and when the selection was set before the graph was
\* first built.
C27_SelectedNodeStroked ==
  (/\ phase = "mounted"
   /\ Truthy(props.selectedNodeId)
   /\ Val(props.selectedNodeId) \in nodesOf(props))
    => /\ nodeCircleSelectionRef # Null
       /\ \A n \in DOMAIN Val(nodeCircleSelectionRef).stroke :
            Val(nodeCircleSelectionRef).stroke[n] =
              IF n = Val(props.selectedNodeId) THEN "primary" ELSE "text"

\* C28: if no mentionsMax parameter was supplied and the user never moves the
\* mention slider, then after any sequence of date-window changes, once the
\* effects have settled, the effective mention upper bound equals
\* maxMentionsObserved of the current date-filtered set.
C28_UpperBoundFollowsData ==
  (Quiescent /\ mentionsPristine /\ ~isLoading(query)) =>
    Coalesce(st.mentionsMax, rendered.maxMentionsObserved) = rendered.maxMentionsObserved

\* the filter parameters of the URL are those the persistence effect writes
\* for the current state: each value that differs from its default, no other
UrlHoldsNonDefaults ==
  \E next \in {PersistedParams(params, st, rendered, query)} :
    /\ next = params
    /\ \E db \in {rendered.dateBounds} :
         /\ params.publishedMinDay # Null <=>
              Val(st.publishedMinDay) # defaultPublishedMinDay(db)
         /\ params.publishedMaxDay # Null <=> Val(st.publishedMaxDay) # db.maxDay
         /\ params.mentionsMin # Null <=> Val(st.mentionsMin) # rendered.mentionDefaultMin
         /\ params.mentionsMax # Null <=> Val(st.mentionsMax) # rendered.maxMentionsObserved

====
